---------------------------- MODULE Spec2Model ----------------------------
(***************************************************************************)
(* A model of the SentinelAI backend: the AdShield detection-and-scoring   *)
(* engine (backend/shield_engine.py), its simplified twin SimpleAdShield   *)
(* (backend/simple_main.py), the narrative enrichment with its fallback    *)
(* (backend/gemini_analyzer.py) and the HTTP handlers that call them       *)
(* (backend/main.py).                                                      *)
(*                                                                         *)
(* Texts are strings.  Offsets are Python's: position p is the number of   *)
(* characters before it, so text[a:b] is SubSeq(text, a + 1, b).           *)
(***************************************************************************)
EXTENDS Integers, Sequences, FiniteSets, TLC

(***************************************************************************)
(* Characters, str.lower(), str.strip(), str.find(), the `in` operator.    *)
(***************************************************************************)
UPPERCASE == "ABCDEFGHIJKLMNOPQRSTUVWXYZ"

LOWERCASE == "abcdefghijklmnopqrstuvwxyz"

DIGITS == "0123456789"

CharsOf(s) == { SubSeq(s, i, i) : i \in 1..Len(s) }

ToLower == [ c \in CharsOf(UPPERCASE) |->
               LET i == CHOOSE k \in 1..Len(UPPERCASE) : SubSeq(UPPERCASE, k, k) = c
               IN  SubSeq(LOWERCASE, i, i) ]

LowerChar(c) == IF c \in DOMAIN ToLower THEN ToLower[c] ELSE c

\* the characters lo..hi of s, every one mapped on its own
RECURSIVE LowerWithin(_, _, _)
LowerWithin(s, lo, hi) ==
    IF lo > hi THEN ""
    ELSE IF lo = hi THEN LowerChar(SubSeq(s, lo, lo))
    ELSE LowerWithin(s, lo, (lo + hi) \div 2) \o LowerWithin(s, (lo + hi) \div 2 + 1, hi)

\* str.lower()
Lower(s) == LowerWithin(s, 1, Len(s))

Whitespace == {" ", "\t", "\n", "\r"}

Letter == CharsOf(LOWERCASE)

Digit == CharsOf(DIGITS)

WordChar == Letter \cup Digit \cup {"_"}

RECURSIVE LStrip(_)
LStrip(s) == IF s # "" /\ Head(s) \in Whitespace THEN LStrip(Tail(s)) ELSE s

RECURSIVE RStrip(_)
RStrip(s) ==
    IF s # "" /\ SubSeq(s, Len(s), Len(s)) \in Whitespace
    THEN RStrip(SubSeq(s, 1, Len(s) - 1))
    ELSE s

Strip(s) == RStrip(LStrip(s))

\* text[a:b] for 0 <= a, b within the text
Slice(s, a, b) == SubSeq(s, a + 1, b)

\* the lowest position in lo..hi where sub occurs, or -1
RECURSIVE FindWithin(_, _, _, _)
FindWithin(s, sub, lo, hi) ==
    IF lo > hi THEN -1
    ELSE IF lo = hi THEN IF Slice(s, lo, lo + Len(sub)) = sub THEN lo ELSE -1
    ELSE LET mid  == (lo + hi) \div 2
             left == FindWithin(s, sub, lo, mid)
         IN  IF left # -1 THEN left ELSE FindWithin(s, sub, mid + 1, hi)

\* s.find(sub, start): the lowest position >= start where sub occurs, or -1
Find(s, sub, start) == FindWithin(s, sub, start, Len(s) - Len(sub))

\* sub in s
Contains(s, sub) == Find(s, sub, 0) # -1

Min(a, b) == IF a < b THEN a ELSE b

Max(a, b) == IF a > b THEN a ELSE b

(***************************************************************************)
(* Regular expressions, as far as the pattern registries use them.  A      *)
(* pattern is a tree; MatchAt gives the positions at which a match         *)
(* starting at p can end, in the order a backtracking matcher tries them   *)
(* (greedy repetition longest first, lazy shortest first, alternatives     *)
(* left to right), so its first element is where re's match ends.  Every   *)
(* call in the program passes re.IGNORECASE: literals and classes are      *)
(* compared on lowercased characters.                                      *)
(***************************************************************************)
Lit(s) == <<"lit", s>>

\* a character class repeated lo..hi times (hi = -1: no upper limit)
Cls(S, lo, hi) == <<"cls", S, lo, hi, TRUE>>

\* `.` under re.DOTALL, repeated lazily: .*?
AnyLazy == <<"any", 0, -1, FALSE>>

Opt(r) == <<"opt", r>>

Alt(rs) == <<"alt", rs>>

Cat(rs) == <<"cat", rs>>

\* \b
WB == <<"wb">>

\* \s+ and \s*
WS1 == Cls(Whitespace, 1, -1)

WS0 == Cls(Whitespace, 0, -1)

CharAt(t, p) == SubSeq(t, p + 1, p + 1)

IsWordAt(t, p) == p >= 0 /\ p < Len(t) /\ LowerChar(CharAt(t, p)) \in WordChar

\* the number of characters from p on that are in S, at most hi when hi >= 0
RECURSIVE RunLen(_, _, _, _, _)
RunLen(S, any, t, p, hi) ==
    IF hi = 0 \/ p >= Len(t) THEN 0
    ELSE IF any \/ LowerChar(CharAt(t, p)) \in S
         THEN 1 + RunLen(S, any, t, p + 1, IF hi < 0 THEN hi ELSE hi - 1)
         ELSE 0

RepeatEnds(run, lo, p, greedy) ==
    IF run < lo THEN <<>>
    ELSE [ k \in 1..(run - lo + 1) |->
             IF greedy THEN p + run - (k - 1) ELSE p + lo + (k - 1) ]

RECURSIVE MatchAt(_, _, _), MatchCat(_, _, _, _), CatEnds(_, _, _, _, _), MatchAlt(_, _, _, _)
MatchAt(r, t, p) ==
    CASE r[1] = "lit" ->
           IF p + Len(r[2]) <= Len(t) /\ Lower(Slice(t, p, p + Len(r[2]))) = Lower(r[2])
           THEN <<p + Len(r[2])>> ELSE <<>>
      [] r[1] = "cls" -> RepeatEnds(RunLen(r[2], FALSE, t, p, r[4]), r[3], p, r[5])
      [] r[1] = "any" -> RepeatEnds(RunLen({}, TRUE, t, p, r[3]), r[2], p, r[4])
      [] r[1] = "opt" -> MatchAt(r[2], t, p) \o <<p>>
      [] r[1] = "alt" -> MatchAlt(r[2], 1, t, p)
      [] r[1] = "cat" -> MatchCat(r[2], 1, t, p)
      [] r[1] = "wb"  -> IF IsWordAt(t, p - 1) # IsWordAt(t, p) THEN <<p>> ELSE <<>>

MatchAlt(rs, k, t, p) ==
    IF k > Len(rs) THEN <<>> ELSE MatchAt(rs[k], t, p) \o MatchAlt(rs, k + 1, t, p)

MatchCat(rs, k, t, p) ==
    IF k > Len(rs) THEN <<p>> ELSE CatEnds(rs, k, t, MatchAt(rs[k], t, p), 1)

CatEnds(rs, k, t, ends, j) ==
    IF j > Len(ends) THEN <<>>
    ELSE MatchCat(rs, k + 1, t, ends[j]) \o CatEnds(rs, k, t, ends, j + 1)

\* re.finditer(pattern, t): the non-overlapping matches, left to right
RECURSIVE FindIterFrom(_, _, _)
FindIterFrom(r, t, p) ==
    IF p > Len(t) THEN <<>>
    ELSE LET ends == MatchAt(r, t, p)
         IN  IF ends = <<>> THEN FindIterFrom(r, t, p + 1)
             ELSE <<[start |-> p, end |-> ends[1]]>>
                  \o FindIterFrom(r, t, IF ends[1] > p THEN ends[1] ELSE p + 1)

FindIter(r, t) == FindIterFrom(r, t, 0)

(***************************************************************************)
(* The registries of AdShield.  A Python dict keeps insertion order, so a  *)
(* registry is a sequence of <<key, value>> pairs.                         *)
(***************************************************************************)
\* verb\s+(?:all\s+)?(?:previous\s+)?instructions?
InstructionsPattern(verb) ==
    Cat(<<Lit(verb), WS1, Opt(Cat(<<Lit("all"), WS1>>)), Opt(Cat(<<Lit("previous"), WS1>>)),
          Lit("instruction"), Opt(Lit("s"))>>)

\* lead(?:a\s+)?(?:different\s+)?(?:ai|assistant|bot|model), lead a sequence of parts
RolePattern(lead, roles) ==
    Cat(lead \o <<Opt(Cat(<<Lit("a"), WS1>>)), Opt(Cat(<<Lit("different"), WS1>>)), Alt(roles)>>)

FullRoles == <<Lit("ai"), Lit("assistant"), Lit("bot"), Lit("model")>>

\* name\s*[:=]\s*["']
AssignPattern(name) == Cat(<<Lit(name), WS0, Cls({":", "="}, 1, 1), WS0, Cls({"\"", "'"}, 1, 1)>>)

injection_patterns == <<
    <<"ignore_instructions", <<
        InstructionsPattern("ignore"), InstructionsPattern("disregard"),
        InstructionsPattern("forget"), InstructionsPattern("override") >> >>,
    <<"role_manipulation", <<
        RolePattern(<<Lit("you"), WS1, Lit("are"), WS1, Lit("now"), WS1>>, FullRoles),
        RolePattern(<<Lit("act"), WS1, Lit("as"), WS1>>, FullRoles),
        RolePattern(<<Lit("pretend"), WS1, Opt(Cat(<<Lit("to"), WS1, Lit("be"), WS1>>))>>,
                    FullRoles),
        RolePattern(<<Lit("roleplay"), WS1, Lit("as"), WS1>>, FullRoles) >> >>,
    <<"system_manipulation", <<
        Cat(<<Lit("/*"), AnyLazy, Lit("*/")>>),
        Cat(<<Lit("<"), WS0, Lit("script"), WS0, Lit(">"), AnyLazy,
              Lit("<"), WS0, Lit("/"), WS0, Lit("script"), WS0, Lit(">")>>),
        AssignPattern("system"),
        AssignPattern("prompt") >> >>,
    <<"jailbreak_attempts", <<
        Cat(<<Lit("developer"), WS1, Lit("mode")>>),
        Lit("jailbreak"),
        Cat(<<Lit("unrestricted"), WS1, Lit("mode")>>),
        Cat(<<Lit("bypass"), WS1, Lit("safety")>>),
        Cat(<<Lit("disable"), WS1, Lit("filter"), Opt(Lit("s"))>>),
        Cat(<<Lit("remove"), WS1, Lit("restriction"), Opt(Lit("s"))>>) >> >> >>

\* [A-Za-z0-9._%+-] , [A-Za-z0-9.-] , [A-Z|a-z] , [-.\s] , [-\s] , [/-]
EmailLocal == Letter \cup Digit \cup {".", "_", "%", "+", "-"}

EmailDomain == Letter \cup Digit \cup {".", "-"}

EmailTld == Letter \cup {"|"}

PhoneSep == {"-", "."} \cup Whitespace

DashSpace == {"-"} \cup Whitespace

D(lo, hi) == Cls(Digit, lo, hi)

StreetWords == <<Lit("Street"), Lit("St"), Lit("Avenue"), Lit("Ave"), Lit("Road"), Lit("Rd"),
                 Lit("Boulevard"), Lit("Blvd"), Lit("Lane"), Lit("Ln"), Lit("Drive"), Lit("Dr"),
                 Lit("Court"), Lit("Ct"), Lit("Plaza"), Lit("Pl")>>

pii_patterns == <<
    <<"email", Cat(<<WB, Cls(EmailLocal, 1, -1), Lit("@"), Cls(EmailDomain, 1, -1), Lit("."),
                     Cls(EmailTld, 2, -1), WB>>)>>,
    <<"phone", Cat(<<Opt(Cat(<<Opt(Lit("+")), Lit("1"), Cls(PhoneSep, 0, 1)>>)),
                     Opt(Lit("(")), D(3, 3), Opt(Lit(")")), Cls(PhoneSep, 0, 1),
                     D(3, 3), Cls(PhoneSep, 0, 1), D(4, 4)>>)>>,
    <<"ssn", Cat(<<WB, D(3, 3), Opt(Lit("-")), D(2, 2), Opt(Lit("-")), D(4, 4), WB>>)>>,
    <<"credit_card", Cat(<<WB, D(4, 4), Cls(DashSpace, 0, 1), D(4, 4), Cls(DashSpace, 0, 1),
                           D(4, 4), Cls(DashSpace, 0, 1), D(4, 4), WB>>)>>,
    <<"ip_address", Cat(<<WB, D(1, 3), Lit("."), D(1, 3), Lit("."), D(1, 3), Lit("."),
                          D(1, 3), WB>>)>>,
    <<"address", Cat(<<D(1, -1), WS1, Cls(Letter \cup Whitespace, 1, -1), Alt(StreetWords)>>)>>,
    <<"date_of_birth",
      Cat(<<WB,
            Alt(<<Cat(<<Lit("0"), Cls(CharsOf("123456789"), 1, 1)>>),
                  Cat(<<Lit("1"), Cls(CharsOf("012"), 1, 1)>>)>>),
            Cls({"/", "-"}, 1, 1),
            Alt(<<Cat(<<Lit("0"), Cls(CharsOf("123456789"), 1, 1)>>),
                  Cat(<<Cls(CharsOf("12"), 1, 1), D(1, 1)>>),
                  Cat(<<Lit("3"), Cls(CharsOf("01"), 1, 1)>>)>>),
            Cls({"/", "-"}, 1, 1),
            Alt(<<Lit("19"), Lit("20")>>), D(2, 2), WB>>)>>,
    <<"passport", Cat(<<WB, Cls(Letter, 1, 2), D(6, 9), WB>>)>>,
    <<"license_plate", Cat(<<WB, Cls(Letter, 1, 3), Cls(DashSpace, 0, 1), D(1, 4),
                             Cls(DashSpace, 0, 1), Cls(Letter, 0, 3), WB>>)>> >>

bias_keywords == <<
    <<"racial", <<"race", "ethnicity", "nationality", "skin color", "african", "asian",
                  "hispanic", "latino", "white", "black", "brown", "native", "indigenous",
                  "arab", "jewish">> >>,
    <<"gender", <<"gender", "male", "female", "man", "woman", "boy", "girl", "masculine",
                  "feminine", "transgender", "non-binary", "lgbtq">> >>,
    <<"age", <<"age", "old", "young", "elderly", "senior", "teenager", "child", "adult",
               "millennial", "boomer", "generation">> >>,
    <<"religious", <<"religion", "christian", "muslim", "jewish", "hindu", "buddhist",
                     "atheist", "catholic", "protestant", "islam", "judaism",
                     "christianity">> >>,
    <<"socioeconomic", <<"poor", "rich", "wealthy", "poverty", "homeless", "unemployed",
                         "working class", "middle class", "upper class", "income",
                         "salary">> >> >>

(***************************************************************************)
(* The inputs the model draws.  A request text is a run of up to MaxWords  *)
(* vocabulary items; the items are chosen to hit each detector: injection  *)
(* of each severity the registry can give, overlapping injection matches,  *)
(* PII of two sensitivities, a bias keyword alone and next to a negative   *)
(* or a positive indicator, upper case, whitespace at the edges, and text  *)
(* that matches nothing.                                                   *)
(***************************************************************************)
MaxWords == 1

Vocabulary == {" ", "hello", "Jailbreak", "/*jailbreak*/", "ignore instructions",
               "Jailbreak: ignore instructions", "a@b.co", "123-45-6789", "Old", "all", "fair",
               " a@b.co all old"}

RECURSIVE TextsOver(_, _)
TextsOver(words, n) ==
    IF n = 0 THEN {""}
    ELSE LET shorter == TextsOver(words, n - 1)
         IN  shorter \cup { t \o w : t \in shorter, w \in words }

\* AnalysisRequest.prompt has min_length = 1
Prompts == TextsOver(Vocabulary, MaxWords) \ {""}

\* request.generated_output or "": no output, one that repeats an injection phrase, one
\* with PII and a bias keyword next to a negative indicator, one with keywords of two bias
\* types and PII of low sensitivity
GeneratedOutputs == {"", "jailbreak", "123-45-6789 all old", "all old man 10.0.0.1"}

Classifier(kind, label, score) == [kind |-> kind, label |-> label, score |-> score]

NoClassifier == Classifier("absent", "", 0)

\* what a loaded classifier can do on one call; scores are hundredths in 0..100
ClassifierOutcomes ==
    { Classifier("raises", "", 0), Classifier("empty", "", 0), Classifier("malformed", "", 0) }
    \cup { Classifier("result", "TOXIC", x) : x \in {0, 70, 71, 85, 100} }
    \cup { Classifier("result", "NOT_TOXIC", x) : x \in {30, 100} }

\* the orders in which the process may iterate a set of bias types
HashOrders == { <<"racial", "gender", "age", "religious", "socioeconomic">>,
                <<"socioeconomic", "religious", "age", "gender", "racial">> }

\* f"{text} {generated_output}".strip(): the text the PII and bias detectors are run on
FullText(text, generated_output) == Strip(text \o " " \o generated_output)

FullTexts == { FullText(t, g) : t \in Prompts, g \in GeneratedOutputs }

(***************************************************************************)
(* AdShield: the three detectors.                                          *)
(***************************************************************************)
\* _determine_injection_severity with medium for a category that is not in the map
SeverityDefaultMedium(category, pattern) ==
    CASE category = "system_manipulation" -> "critical"
      [] category = "jailbreak_attempts"  -> "high"
      [] OTHER                            -> "medium"

_determine_injection_severity(category, pattern) ==
    CASE category = "system_manipulation" -> "critical"
      [] category = "jailbreak_attempts"  -> "high"
      [] category = "ignore_instructions" -> "medium"
      [] category = "role_manipulation"   -> "medium"
      [] OTHER                            -> "low"

SeverityScore(severity) ==
    CASE severity = "low"      -> 25
      [] severity = "medium"   -> 50
      [] severity = "high"     -> 75
      [] severity = "critical" -> 100

\* MaxScore with the scores added up instead: total_score = total_score + score
RECURSIVE SumScore(_, _, _)
SumScore(scores, k, total_score) ==
    IF k > Len(scores) THEN total_score
    ELSE SumScore(scores, k + 1, total_score + scores[k])

\* total_score = max(total_score, score), run over the scores in loop order
RECURSIVE MaxScore(_, _, _)
MaxScore(scores, k, total_score) ==
    IF k > Len(scores) THEN total_score
    ELSE MaxScore(scores, k + 1, Max(total_score, scores[k]))

\* the detections of one injection pattern: one per match of finditer
InjectionMatches(category, pattern, text_lower) ==
    LET matches == FindIter(pattern, text_lower)
    IN  [ k \in 1..Len(matches) |->
            LET group == Slice(text_lower, matches[k].start, matches[k].end)
            IN  [start    |-> matches[k].start,
                 end      |-> matches[k].end,
                 type     |-> category,
                 severity |-> _determine_injection_severity(category, group),
                 pattern  |-> group] ]

RECURSIVE InjectionCategory(_, _, _, _)
InjectionCategory(category, patterns, k, text_lower) ==
    IF k > Len(patterns) THEN <<>>
    ELSE InjectionMatches(category, patterns[k], text_lower)
         \o InjectionCategory(category, patterns, k + 1, text_lower)

RECURSIVE InjectionDetections(_, _, _)
InjectionDetections(registry, c, text_lower) ==
    IF c > Len(registry) THEN <<>>
    ELSE InjectionCategory(registry[c][1], registry[c][2], 1, text_lower)
         \o InjectionDetections(registry, c + 1, text_lower)

\* _analyze_prompt_injection with the score capped at 100 after adding the matches' scores
InjectionScoreSummed(text) ==
    LET text_lower == Lower(text)
        detections == InjectionDetections(injection_patterns, 1, text_lower)
        scores     == [ k \in 1..Len(detections) |-> SeverityScore(detections[k].severity) ]
    IN  [score    |-> Min(SumScore(scores, 1, 0), 100),
         detected |-> Len(detections) > 0,
         indices  |-> detections]


_analyze_prompt_injection(text) ==
    LET text_lower == Lower(text)
        detections == InjectionDetections(injection_patterns, 1, text_lower)
        scores     == [ k \in 1..Len(detections) |-> SeverityScore(detections[k].severity) ]
        total_score == MaxScore(scores, 1, 0)
    IN  [score    |-> Min(total_score, 100),
         detected |-> Len(detections) > 0,
         indices  |-> detections]

\* A detector is a function of its text alone: its reports on the texts of the model are
\* worked out once, and analyze looks them up.
InjectionTable == [ t \in Prompts |-> _analyze_prompt_injection(t) ]

\* sensitivity_scores with the values of email and phone exchanged
SensitivityEmailAbovePhone(pii_type) ==
    CASE pii_type = "ssn"           -> 100
      [] pii_type = "credit_card"   -> 100
      [] pii_type = "passport"      -> 90
      [] pii_type = "email"         -> 70
      [] pii_type = "phone"         -> 60
      [] pii_type = "address"       -> 50
      [] pii_type = "date_of_birth" -> 80
      [] pii_type = "ip_address"    -> 30
      [] pii_type = "license_plate" -> 40
      [] OTHER                      -> 50

\* sensitivity_scores.get(pii_type, 50)
sensitivity_scores(pii_type) ==
    CASE pii_type = "ssn"           -> 100
      [] pii_type = "credit_card"   -> 100
      [] pii_type = "passport"      -> 90
      [] pii_type = "email"         -> 60
      [] pii_type = "phone"         -> 70
      [] pii_type = "address"       -> 50
      [] pii_type = "date_of_birth" -> 80
      [] pii_type = "ip_address"    -> 30
      [] pii_type = "license_plate" -> 40
      [] OTHER                      -> 50

\* confidence in hundredths: 0.9 is 90, 0.7 is 70
PiiConfidence(pii_type) == IF pii_type \in {"ssn", "email", "credit_card"} THEN 90 ELSE 70

PiiMatches(pii_type, pattern, text) ==
    LET matches == FindIter(pattern, text)
    IN  [ k \in 1..Len(matches) |->
            [start      |-> matches[k].start,
             end        |-> matches[k].end,
             type       |-> "pii",
             piiType    |-> pii_type,
             confidence |-> PiiConfidence(pii_type)] ]

RECURSIVE PiiDetections(_, _, _)
PiiDetections(registry, k, text) ==
    IF k > Len(registry) THEN <<>>
    ELSE PiiMatches(registry[k][1], registry[k][2], text) \o PiiDetections(registry, k + 1, text)

_analyze_pii(text) ==
    LET detections == PiiDetections(pii_patterns, 1, text)
        scores     == [ k \in 1..Len(detections) |-> sensitivity_scores(detections[k].piiType) ]
        total_score == MaxScore(scores, 1, 0)
    IN  [score    |-> Min(total_score, 100),
         detected |-> Len(detections) > 0,
         indices  |-> detections]

PiiTable == [ t \in FullTexts |-> _analyze_pii(t) ]

negative_words == <<"hate", "stupid", "inferior", "better than", "worse than", "all", "never",
                    "always">>

positive_words == <<"respect", "equal", "diverse", "inclusive", "fair", "understanding">>

\* sum(1 for word in words if word in context_lower)
CountIn(words, context_lower) ==
    Cardinality({ k \in 1..Len(words) : Contains(context_lower, words[k]) })

base_score == 20

\* _analyze_bias_context with the negative branch taken on a tie as well
BiasContextTieNegative(context, keyword) ==
    LET context_lower  == Lower(context)
        negative_count == CountIn(negative_words, context_lower)
        positive_count == CountIn(positive_words, context_lower)
    IN  IF negative_count >= positive_count
        THEN Min(base_score + (negative_count * 20), 100)
        ELSE IF positive_count > 0
             THEN Max(base_score - (positive_count * 10), 0)
             ELSE base_score

_analyze_bias_context(context, keyword) ==
    LET context_lower  == Lower(context)
        negative_count == CountIn(negative_words, context_lower)
        positive_count == CountIn(positive_words, context_lower)
    IN  IF negative_count > positive_count
        THEN Min(base_score + (negative_count * 20), 100)
        ELSE IF positive_count > 0
             THEN Max(base_score - (positive_count * 10), 0)
             ELSE base_score

ContextRadius == 50

\* the search resumed behind the occurrence found: start_pos = pos + len(keyword)
NextStartPastKeyword(pos, keyword) == pos + Len(keyword)

\* start_pos = pos + 1
NextStart(pos, keyword) == pos + 1

\* the while loop over one keyword: every pos that find() returns, start_pos = pos + 1
RECURSIVE KeywordOccurrences(_, _, _, _, _)
KeywordOccurrences(bias_type, keyword, text, text_lower, start_pos) ==
    LET pos == Find(text_lower, keyword, start_pos)
    IN  IF pos = -1 THEN <<>>
        ELSE LET context_start == Max(0, pos - ContextRadius)
                 context_end   == Min(Len(text), pos + Len(keyword) + ContextRadius)
                 context       == Slice(text, context_start, context_end)
             IN  <<[start     |-> pos,
                    end       |-> pos + Len(keyword),
                    type      |-> "bias",
                    biasType  |-> bias_type,
                    intensity |-> _analyze_bias_context(context, keyword)]>>
                 \o KeywordOccurrences(bias_type, keyword, text, text_lower,
                                       NextStart(pos, keyword))

RECURSIVE TypeOccurrences(_, _, _, _, _)
TypeOccurrences(bias_type, keywords, k, text, text_lower) ==
    IF k > Len(keywords) THEN <<>>
    ELSE (IF Contains(text_lower, keywords[k])
          THEN KeywordOccurrences(bias_type, keywords[k], text, text_lower, 0)
          ELSE <<>>)
         \o TypeOccurrences(bias_type, keywords, k + 1, text, text_lower)

\* every keyword occurrence the loops visit, in order, with its intensity
RECURSIVE BiasOccurrences(_, _, _, _)
BiasOccurrences(registry, c, text, text_lower) ==
    IF c > Len(registry) THEN <<>>
    ELSE TypeOccurrences(registry[c][1], registry[c][2], 1, text, text_lower)
         \o BiasOccurrences(registry, c + 1, text, text_lower)

\* bias_scores[bias_type] raised inside the if: by the recorded occurrences only
TypeScoreListedOnly(occurrences, bias_type) ==
    LET mine == SelectSeq(occurrences,
                          LAMBDA o : o.biasType = bias_type /\ o.intensity > 30)
    IN  MaxScore([ k \in 1..Len(mine) |-> mine[k].intensity ], 1, 0)

\* bias_scores[bias_type] after the loops: the max intensity seen for the type, from 0
TypeScore(occurrences, bias_type) ==
    LET mine == SelectSeq(occurrences, LAMBDA o : o.biasType = bias_type)
    IN  MaxScore([ k \in 1..Len(mine) |-> mine[k].intensity ], 1, 0)

ReportThreshold == 30

\* The classifier's answer to one call, as the engine sees it:
\*   kind = "absent"     self.bias_classifier is None
\*   kind = "raises"     the call raises
\*   kind = "empty"      it returns an empty result
\*   kind = "malformed"  reading label or score of the result raises
\*   kind = "result"     it returns label and score (score in hundredths)
ToxicityThreshold == 70

\* bias_scores.values() after the classifier block: the keyword scores and, when the
\* classifier reports TOXIC above the threshold, the "overall" entry
BiasScoreValues(bias_scores, classifier) ==
    LET toxicity_score == IF classifier.label = "TOXIC" THEN classifier.score ELSE 0
    IN  IF classifier.kind = "result" /\ toxicity_score > ToxicityThreshold
        THEN bias_scores \o <<Min(toxicity_score, 100)>>
        ELSE bias_scores

\* the keyword loops of _analyze_bias on one text
KeywordScan(text) == BiasOccurrences(bias_keywords, 1, text, Lower(text))

KeywordScanTable == [ t \in FullTexts |-> KeywordScan(t) ]

\* _analyze_bias with detected taken from the score instead of the detections
BiasDetectedByScore(text, classifier) ==
    LET occurrences == KeywordScanTable[text]
        detections  == SelectSeq(occurrences, LAMBDA o : o.intensity > ReportThreshold)
        bias_scores == [ c \in 1..Len(bias_keywords) |-> TypeScore(occurrences, bias_keywords[c][1]) ]
        overall_bias_score == MaxScore(BiasScoreValues(bias_scores, classifier), 1, 0)
    IN  [score     |-> Min(overall_bias_score, 100),
         detected  |-> overall_bias_score > 0,
         indices   |-> detections,
         racial    |-> bias_scores[1],
         gender    |-> bias_scores[2],
         age       |-> bias_scores[3],
         religious |-> bias_scores[4]]

\* _analyze_bias without the test on bias_intensity: every occurrence is recorded
BiasRecordedAtAnyIntensity(text, classifier) ==
    LET occurrences == KeywordScanTable[text]
        detections  == occurrences
        bias_scores == [ c \in 1..Len(bias_keywords) |-> TypeScore(occurrences, bias_keywords[c][1]) ]
        overall_bias_score == MaxScore(BiasScoreValues(bias_scores, classifier), 1, 0)
    IN  [score     |-> Min(overall_bias_score, 100),
         detected  |-> Len(detections) > 0,
         indices   |-> detections,
         racial    |-> bias_scores[1],
         gender    |-> bias_scores[2],
         age       |-> bias_scores[3],
         religious |-> bias_scores[4]]

_analyze_bias(text, classifier) ==
    LET occurrences == KeywordScanTable[text]
        detections  == SelectSeq(occurrences, LAMBDA o : o.intensity > ReportThreshold)
        bias_scores == [ c \in 1..Len(bias_keywords) |-> TypeScore(occurrences, bias_keywords[c][1]) ]
        overall_bias_score == MaxScore(BiasScoreValues(bias_scores, classifier), 1, 0)
    IN  [score     |-> Min(overall_bias_score, 100),
         detected  |-> Len(detections) > 0,
         indices   |-> detections,
         racial    |-> bias_scores[1],
         gender    |-> bias_scores[2],
         age       |-> bias_scores[3],
         religious |-> bias_scores[4]]

(***************************************************************************)
(* AdShield: aggregation, summary and the entry point.                     *)
(***************************************************************************)
\* the weights with the first two exchanged
WeightsExchanged == <<3, 4, 3>>

\* the weights with half of the whole on injection
WeightsInjectionHalf == <<5, 3, 2>>

\* weights = [0.4, 0.3, 0.3], in tenths
weights == <<4, 3, 3>>

\* _calculate_overall_score with the cap taken as a remainder: int(weighted_score) % 100
OverallScoreWrapped(prompt_injection, pii_analysis, bias_analysis) ==
    ((prompt_injection.score * 4 + pii_analysis.score * 3 + bias_analysis.score * 3) \div 10) % 100

\* _calculate_overall_score without the weights and without the cap
OverallScoreUnweighted(prompt_injection, pii_analysis, bias_analysis) ==
    prompt_injection.score + pii_analysis.score + bias_analysis.score

\* min(int(weighted_score), 100): the scores are not negative, so int() is the floor.
\* The sum is computed here in whole tenths.  In double precision it is the same number
\* for every triple of scores the three analyses report; on some other triples (0, 1, 9:
\* 0.3 + 2.7) the double falls just under the whole number and int() gives one less.
_calculate_overall_score(prompt_injection, pii_analysis, bias_analysis) ==
    LET scores == <<prompt_injection.score, pii_analysis.score, bias_analysis.score>>
        weighted_tenths == scores[1] * weights[1] + scores[2] * weights[2] + scores[3] * weights[3]
    IN  Min(weighted_tenths \div 10, 100)

\* _determine_risk_level with the bands exclusive on their lower bound
RiskLevelExclusive(score) ==
    IF score > 80 THEN "high"
    ELSE IF score > 50 THEN "medium"
    ELSE "low"


_determine_risk_level(score) ==
    IF score >= 80 THEN "high"
    ELSE IF score >= 50 THEN "medium"
    ELSE "low"

risk_descriptions(risk_level) ==
    CASE risk_level = "low" ->
           "The analyzed content presents minimal security risks and appears safe for processing."
      [] risk_level = "medium" ->
           "The content contains some concerning elements that require attention and monitoring."
      [] risk_level = "high" ->
           "The content presents significant security risks and requires immediate review before processing."

\* " ".join(parts) and ", ".join(parts)
RECURSIVE Join(_, _)
Join(sep, parts) ==
    IF parts = <<>> THEN ""
    ELSE IF Len(parts) = 1 THEN parts[1]
    ELSE parts[1] \o sep \o Join(sep, Tail(parts))

\* the bias type of every detection in the order of the detections, repeats included
ListIteration(indices, order) == [ k \in 1..Len(indices) |-> indices[k].biasType ]

\* Iterating set(item["biasType"] ...) yields the distinct types in the order the
\* process's string hashing gives them: order is that order over all the types.
SetIteration(indices, order) ==
    SelectSeq(order, LAMBDA b : \E k \in 1..Len(indices) : indices[k].biasType = b)

_generate_trust_lens_summary(prompt_injection, pii_analysis, bias_analysis, risk_level, order) ==
    LET injection_count == Len(prompt_injection.indices)
        pii_count       == Len(pii_analysis.indices)
        bias_types      == SetIteration(bias_analysis.indices, order)
        summary_parts ==
            <<risk_descriptions(risk_level)>>
            \o (IF prompt_injection.detected
                THEN <<"Detected " \o ToString(injection_count)
                       \o " potential prompt injection attempt(s) that could compromise AI system behavior.">>
                ELSE <<>>)
            \o (IF pii_analysis.detected
                THEN <<"Identified " \o ToString(pii_count)
                       \o " instance(s) of personally identifiable information requiring protection.">>
                ELSE <<>>)
            \o (IF bias_analysis.detected
                THEN <<"Found potential bias indicators related to: " \o Join(", ", bias_types) \o ".">>
                ELSE <<>>)
    IN  Join(" ", summary_parts)

\* _generate_summary without the sentences for the case that nothing was detected
SummaryWithoutDefault(prompt_injection, pii_analysis, bias_analysis, risk_level, order) ==
    LET found ==
            (IF prompt_injection.detected
             THEN <<[factor |-> "Potential prompt injection attempts detected",
                     advice |-> "Review and sanitize user inputs before processing"]>>
             ELSE <<>>)
            \o (IF pii_analysis.detected
                THEN <<[factor |-> "Personally identifiable information found in content",
                        advice |-> "Implement PII masking or removal procedures"]>>
                ELSE <<>>)
            \o (IF bias_analysis.detected
                THEN <<[factor |-> "Potential bias indicators found in content",
                        advice |-> "Review content for inclusive language and bias mitigation"]>>
                ELSE <<>>)
    IN  [trustLens       |-> _generate_trust_lens_summary(prompt_injection, pii_analysis,
                                                          bias_analysis, risk_level, order),
         recommendations |-> [ k \in 1..Len(found) |-> found[k].advice ],
         riskFactors     |-> [ k \in 1..Len(found) |-> found[k].factor ]]

_generate_summary(prompt_injection, pii_analysis, bias_analysis, risk_level, order) ==
    LET found ==
            (IF prompt_injection.detected
             THEN <<[factor |-> "Potential prompt injection attempts detected",
                     advice |-> "Review and sanitize user inputs before processing"]>>
             ELSE <<>>)
            \o (IF pii_analysis.detected
                THEN <<[factor |-> "Personally identifiable information found in content",
                        advice |-> "Implement PII masking or removal procedures"]>>
                ELSE <<>>)
            \o (IF bias_analysis.detected
                THEN <<[factor |-> "Potential bias indicators found in content",
                        advice |-> "Review content for inclusive language and bias mitigation"]>>
                ELSE <<>>)
        trust_lens == _generate_trust_lens_summary(prompt_injection, pii_analysis, bias_analysis,
                                                   risk_level, order)
        pairs == IF found = <<>>
                 THEN <<[factor |-> "No significant security risks detected",
                         advice |-> "Content appears safe for processing"]>>
                 ELSE found
    IN  [trustLens       |-> trust_lens,
         recommendations |-> [ k \in 1..Len(pairs) |-> pairs[k].advice ],
         riskFactors     |-> [ k \in 1..Len(pairs) |-> pairs[k].factor ]]

\* AdShield.analyze, given the detectors' reports
Compose(prompt_injection, pii_analysis, bias_analysis, order) ==
    LET overall_score == _calculate_overall_score(prompt_injection, pii_analysis, bias_analysis)
        risk_level    == _determine_risk_level(overall_score)
    IN  [promptInjection |-> prompt_injection,
         pii             |-> pii_analysis,
         bias            |-> bias_analysis,
         overall         |-> [score |-> overall_score, riskLevel |-> risk_level],
         summary         |-> _generate_summary(prompt_injection, pii_analysis, bias_analysis,
                                               risk_level, order)]

\* analyze with the injection detector run on the combined text
AnalyzeInjectionOnFullText(text, generated_output, classifier, order) ==
    LET full_text == FullText(text, generated_output)
    IN  Compose(_analyze_prompt_injection(full_text), PiiTable[full_text],
                _analyze_bias(full_text, classifier), order)


analyze(text, generated_output, classifier, order) ==
    LET full_text == FullText(text, generated_output)
    IN  Compose(InjectionTable[text], PiiTable[full_text],
                _analyze_bias(full_text, classifier), order)

(***************************************************************************)
(* SimpleAdShield (simple_main.py): its own registries and detectors; the  *)
(* aggregation is the same code again.                                     *)
(***************************************************************************)
SimpleRoles == <<Lit("ai"), Lit("assistant"), Lit("bot")>>

simple_injection_patterns == <<
    <<"ignore_instructions", <<
        InstructionsPattern("ignore"), InstructionsPattern("disregard"),
        InstructionsPattern("forget") >> >>,
    <<"role_manipulation", <<
        RolePattern(<<Lit("you"), WS1, Lit("are"), WS1, Lit("now"), WS1>>, SimpleRoles),
        RolePattern(<<Lit("act"), WS1, Lit("as"), WS1>>, SimpleRoles),
        RolePattern(<<Lit("pretend"), WS1, Opt(Cat(<<Lit("to"), WS1, Lit("be"), WS1>>))>>,
                    SimpleRoles) >> >>,
    <<"jailbreak_attempts", <<
        Cat(<<Lit("developer"), WS1, Lit("mode")>>),
        Lit("jailbreak"),
        Cat(<<Lit("bypass"), WS1, Lit("safety")>>),
        Cat(<<Lit("disable"), WS1, Lit("filter"), Opt(Lit("s"))>>) >> >> >>

\* the first five entries of the full registry, pattern for pattern
simple_pii_patterns == SubSeq(pii_patterns, 1, 5)

simple_bias_keywords == <<
    <<"racial", <<"race", "ethnicity", "skin color", "african", "asian", "hispanic", "white",
                  "black">> >>,
    <<"gender", <<"gender", "male", "female", "man", "woman", "masculine", "feminine">> >>,
    <<"age", <<"age", "old", "young", "elderly", "teenager", "child", "adult">> >>,
    <<"religious", <<"religion", "christian", "muslim", "jewish", "hindu", "buddhist">> >> >>

SimpleInjectionMatches(category, pattern, text_lower) ==
    LET matches  == FindIter(pattern, text_lower)
        severity == IF category = "jailbreak_attempts" THEN "high" ELSE "medium"
    IN  [ k \in 1..Len(matches) |->
            [start    |-> matches[k].start,
             end      |-> matches[k].end,
             type     |-> category,
             severity |-> severity] ]

RECURSIVE SimpleInjectionCategory(_, _, _, _)
SimpleInjectionCategory(category, patterns, k, text_lower) ==
    IF k > Len(patterns) THEN <<>>
    ELSE SimpleInjectionMatches(category, patterns[k], text_lower)
         \o SimpleInjectionCategory(category, patterns, k + 1, text_lower)

RECURSIVE SimpleInjectionDetections(_, _, _)
SimpleInjectionDetections(registry, c, text_lower) ==
    IF c > Len(registry) THEN <<>>
    ELSE SimpleInjectionCategory(registry[c][1], registry[c][2], 1, text_lower)
         \o SimpleInjectionDetections(registry, c + 1, text_lower)

\* SimpleAdShield._analyze_prompt_injection with the scores of the matches added up
\* under the cap, in place of their maximum
SimpleInjectionScoreSummed(text) ==
    LET text_lower == Lower(text)
        detections == SimpleInjectionDetections(simple_injection_patterns, 1, text_lower)
        scores     == [ k \in 1..Len(detections) |->
                          IF detections[k].severity = "high" THEN 75 ELSE 50 ]
        total_score == SumScore(scores, 1, 0)
    IN  [score    |-> Min(total_score, 100),
         detected |-> Len(detections) > 0,
         indices  |-> detections]

Simple_analyze_prompt_injection(text) ==
    LET text_lower == Lower(text)
        detections == SimpleInjectionDetections(simple_injection_patterns, 1, text_lower)
        scores     == [ k \in 1..Len(detections) |->
                          IF detections[k].severity = "high" THEN 75 ELSE 50 ]
        total_score == MaxScore(scores, 1, 0)
    IN  [score    |-> Min(total_score, 100),
         detected |-> Len(detections) > 0,
         indices  |-> detections]

\* the table of the simplified engine drifted from the full one: email rated as phone
\* is rated there, and phone as email
SimpleSensitivityDrifted(pii_type) ==
    CASE pii_type = "ssn"         -> 100
      [] pii_type = "credit_card" -> 100
      [] pii_type = "email"       -> 70
      [] pii_type = "phone"       -> 60
      [] pii_type = "ip_address"  -> 30
      [] OTHER                    -> 50

\* {...}.get(pii_type, 50)
simple_sensitivity(pii_type) ==
    CASE pii_type = "ssn"         -> 100
      [] pii_type = "credit_card" -> 100
      [] pii_type = "email"       -> 60
      [] pii_type = "phone"       -> 70
      [] pii_type = "ip_address"  -> 30
      [] OTHER                    -> 50

SimplePiiMatches(pii_type, pattern, text) ==
    LET matches == FindIter(pattern, text)
    IN  [ k \in 1..Len(matches) |->
            [start   |-> matches[k].start,
             end     |-> matches[k].end,
             type    |-> "pii",
             piiType |-> pii_type] ]

RECURSIVE SimplePiiDetections(_, _, _)
SimplePiiDetections(registry, k, text) ==
    IF k > Len(registry) THEN <<>>
    ELSE SimplePiiMatches(registry[k][1], registry[k][2], text)
         \o SimplePiiDetections(registry, k + 1, text)

Simple_analyze_pii(text) ==
    LET detections == SimplePiiDetections(simple_pii_patterns, 1, text)
        scores     == [ k \in 1..Len(detections) |-> simple_sensitivity(detections[k].piiType) ]
        total_score == MaxScore(scores, 1, 0)
    IN  [score    |-> Min(total_score, 100),
         detected |-> Len(detections) > 0,
         indices  |-> detections]

SimpleKeywordScore == 30

\* one detection per keyword present, at its first position
RECURSIVE SimpleTypeDetections(_, _, _, _)
SimpleTypeDetections(bias_type, keywords, k, text_lower) ==
    IF k > Len(keywords) THEN <<>>
    ELSE (IF Contains(text_lower, keywords[k])
          THEN LET pos == Find(text_lower, keywords[k], 0)
               IN  <<[start    |-> pos,
                      end      |-> pos + Len(keywords[k]),
                      type     |-> "bias",
                      biasType |-> bias_type]>>
          ELSE <<>>)
         \o SimpleTypeDetections(bias_type, keywords, k + 1, text_lower)

RECURSIVE SimpleBiasDetections(_, _, _)
SimpleBiasDetections(registry, c, text_lower) ==
    IF c > Len(registry) THEN <<>>
    ELSE SimpleTypeDetections(registry[c][1], registry[c][2], 1, text_lower)
         \o SimpleBiasDetections(registry, c + 1, text_lower)

Simple_analyze_bias(text) ==
    LET text_lower == Lower(text)
        detections == SimpleBiasDetections(simple_bias_keywords, 1, text_lower)
        bias_scores == [ c \in 1..Len(simple_bias_keywords) |->
                           LET mine == SelectSeq(detections,
                                           LAMBDA d : d.biasType = simple_bias_keywords[c][1])
                           IN  MaxScore([ k \in 1..Len(mine) |-> SimpleKeywordScore ], 1, 0) ]
        overall_bias_score == MaxScore(bias_scores, 1, 0)
    IN  [score     |-> Min(overall_bias_score, 100),
         detected  |-> Len(detections) > 0,
         indices   |-> detections,
         racial    |-> bias_scores[1],
         gender    |-> bias_scores[2],
         age       |-> bias_scores[3],
         religious |-> bias_scores[4]]

\* Simple_generate_summary with the no-risk sentences added whenever the risk level is low
SimpleSummaryDefaultOnLow(prompt_injection, pii_analysis, bias_analysis, risk_level) ==
    LET found ==
            (IF prompt_injection.detected
             THEN <<[factor |-> "Potential prompt injection attempts detected",
                     advice |-> "Review and sanitize user inputs before processing"]>>
             ELSE <<>>)
            \o (IF pii_analysis.detected
                THEN <<[factor |-> "Personally identifiable information found in content",
                        advice |-> "Implement PII masking or removal procedures"]>>
                ELSE <<>>)
            \o (IF bias_analysis.detected
                THEN <<[factor |-> "Potential bias indicators found in content",
                        advice |-> "Review content for inclusive language"]>>
                ELSE <<>>)
        pairs == IF risk_level = "low"
                 THEN found \o <<[factor |-> "No significant security risks detected",
                                  advice |-> "Content appears safe for processing"]>>
                 ELSE found
        risk_factors == [ k \in 1..Len(pairs) |-> pairs[k].factor ]
    IN  [trustLens       |-> "The analyzed content presents " \o risk_level
                             \o " security risks. " \o Join(" ", risk_factors),
         recommendations |-> [ k \in 1..Len(pairs) |-> pairs[k].advice ],
         riskFactors     |-> risk_factors]

Simple_generate_summary(prompt_injection, pii_analysis, bias_analysis, risk_level) ==
    LET found ==
            (IF prompt_injection.detected
             THEN <<[factor |-> "Potential prompt injection attempts detected",
                     advice |-> "Review and sanitize user inputs before processing"]>>
             ELSE <<>>)
            \o (IF pii_analysis.detected
                THEN <<[factor |-> "Personally identifiable information found in content",
                        advice |-> "Implement PII masking or removal procedures"]>>
                ELSE <<>>)
            \o (IF bias_analysis.detected
                THEN <<[factor |-> "Potential bias indicators found in content",
                        advice |-> "Review content for inclusive language"]>>
                ELSE <<>>)
        pairs == IF found = <<>>
                 THEN <<[factor |-> "No significant security risks detected",
                         advice |-> "Content appears safe for processing"]>>
                 ELSE found
        risk_factors == [ k \in 1..Len(pairs) |-> pairs[k].factor ]
    IN  [trustLens       |-> "The analyzed content presents " \o risk_level
                             \o " security risks. " \o Join(" ", risk_factors),
         recommendations |-> [ k \in 1..Len(pairs) |-> pairs[k].advice ],
         riskFactors     |-> risk_factors]

Simple_calculate_overall_score(prompt_injection, pii_analysis, bias_analysis) ==
    LET scores == <<prompt_injection.score, pii_analysis.score, bias_analysis.score>>
        weighted_tenths == scores[1] * weights[1] + scores[2] * weights[2] + scores[3] * weights[3]
    IN  Min(weighted_tenths \div 10, 100)

Simple_determine_risk_level(score) ==
    IF score >= 80 THEN "high"
    ELSE IF score >= 50 THEN "medium"
    ELSE "low"

SimpleCompose(prompt_injection, pii_analysis, bias_analysis) ==
    LET overall_score == Simple_calculate_overall_score(prompt_injection, pii_analysis,
                                                        bias_analysis)
        risk_level    == Simple_determine_risk_level(overall_score)
    IN  [promptInjection |-> prompt_injection,
         pii             |-> pii_analysis,
         bias            |-> bias_analysis,
         overall         |-> [score |-> overall_score, riskLevel |-> risk_level],
         summary         |-> Simple_generate_summary(prompt_injection, pii_analysis,
                                                     bias_analysis, risk_level)]

SimpleInjectionTable == [ t \in Prompts |-> Simple_analyze_prompt_injection(t) ]

SimplePiiTable == [ t \in FullTexts |-> Simple_analyze_pii(t) ]

SimpleBiasTable == [ t \in FullTexts |-> Simple_analyze_bias(t) ]

Simple_analyze(text, generated_output) ==
    LET full_text == FullText(text, generated_output)
    IN  SimpleCompose(SimpleInjectionTable[text], SimplePiiTable[full_text],
                      SimpleBiasTable[full_text])


(***************************************************************************)
(* The narrative enrichment (gemini_analyzer.py).  A Python dict with      *)
(* string keys is a function on its keys.  json.dumps(value, indent=2) is  *)
(* the document of the value; the handler's json.loads reads the value     *)
(* back out of it.  The text an external model returns is a string, and    *)
(* json.loads of it is looked up in JsonValues: a text that is not there   *)
(* is not JSON.  Confidence is in hundredths.  A number is formatted into  *)
(* a sentence by ToString: Python prints a float score with its decimal    *)
(* part (85.0), the number stated is the same.                             *)
(***************************************************************************)
EmptyDict == [ key \in {} |-> 0 ]

\* d.get(key, default)
Get(d, key, default) == IF d # EmptyDict /\ key \in DOMAIN d THEN d[key] ELSE default

json_dumps(value) == [document |-> value]

_fallback_analysis(adshield_report) ==
    LET overall_score == Get(Get(adshield_report, "overall", EmptyDict), "score", 0)
        risk_level    == Get(Get(adshield_report, "overall", EmptyDict), "riskLevel", "unknown")
        fallback_response ==
            [enhancedAnalysis |->
                [riskAssessment |-> "Content assessed with " \o ToString(overall_score)
                                    \o "/100 risk score (" \o risk_level
                                    \o " risk level). AdShield analysis completed successfully.",
                 contextualInsights |-> "Automated analysis completed. Review specific findings for detailed security assessment.",
                 securityImplications |-> "Refer to AdShield findings for specific security considerations.",
                 mitigationStrategies |-> <<"Review all flagged content sections",
                                            "Apply appropriate security measures based on findings",
                                            "Monitor for similar patterns in future content">>],
             technicalDetails |->
                [promptInjectionAnalysis |-> "Prompt injection score: "
                     \o ToString(Get(Get(adshield_report, "promptInjection", EmptyDict), "score", 0)) \o "/100",
                 piiAnalysis |-> "PII detection score: "
                     \o ToString(Get(Get(adshield_report, "pii", EmptyDict), "score", 0)) \o "/100",
                 biasAnalysis |-> "Bias analysis score: "
                     \o ToString(Get(Get(adshield_report, "bias", EmptyDict), "score", 0)) \o "/100"],
             recommendations |->
                [immediate |-> <<"Review AdShield findings">>,
                 shortTerm |-> <<"Implement findings-based security measures">>,
                 longTerm  |-> <<"Establish regular content security monitoring">>],
             confidence |->
                [overall   |-> 80,
                 reasoning |-> "High confidence in automated analysis results. Enhanced AI insights unavailable."]]
    IN  json_dumps(fallback_response)

_get_default_field_value(field) ==
    CASE field = "enhancedAnalysis" ->
           [riskAssessment       |-> "Unable to generate detailed risk assessment",
            contextualInsights   |-> "Analysis incomplete due to processing error",
            securityImplications |-> "Please review findings manually",
            mitigationStrategies |-> <<"Conduct manual security review">>]
      [] field = "technicalDetails" ->
           [promptInjectionAnalysis |-> "Analysis unavailable",
            piiAnalysis             |-> "Analysis unavailable",
            biasAnalysis            |-> "Analysis unavailable"]
      [] field = "recommendations" ->
           [immediate |-> <<"Review content manually">>,
            shortTerm |-> <<"Implement additional security measures">>,
            longTerm  |-> <<"Establish comprehensive content review process">>]
      [] field = "confidence" ->
           [overall   |-> 50,
            reasoning |-> "Analysis incomplete due to processing limitations"]
      [] OTHER -> EmptyDict

\* the JSON texts of the model and the values json.loads gives for them
GeminiDocument ==
    "{\"enhancedAnalysis\": {}, \"technicalDetails\": {}, \"recommendations\": {}, \"confidence\": {\"overall\": 0.85}}"

PartialDocument == "{\"enhancedAnalysis\": {}}"

JsonValues ==
    [ text \in {GeminiDocument, PartialDocument, "{}", "[1]"} |->
        CASE text = GeminiDocument ->
               [type |-> "dict",
                value |-> [enhancedAnalysis |-> EmptyDict, technicalDetails |-> EmptyDict,
                           recommendations |-> EmptyDict, confidence |-> [overall |-> 85]]]
          [] text = PartialDocument ->
               [type |-> "dict", value |-> [enhancedAnalysis |-> EmptyDict]]
          [] text = "{}"  -> [type |-> "dict", value |-> EmptyDict]
          [] text = "[1]" -> [type |-> "list", value |-> <<1>>] ]

\* json.loads of a text: type "JSONDecodeError" when the text is not JSON
json_loads(text) ==
    IF text \in DOMAIN JsonValues THEN JsonValues[text]
    ELSE [type |-> "JSONDecodeError", value |-> EmptyDict]

StartsWith(s, prefix) == Len(s) >= Len(prefix) /\ SubSeq(s, 1, Len(prefix)) = prefix

EndsWith(s, suffix) == Len(s) >= Len(suffix) /\ SubSeq(s, Len(s) - Len(suffix) + 1, Len(s)) = suffix

\* The markdown code fence, three backquotes.  A TLA+ string cannot hold a backquote:
\* the fence is written with three tildes, which no other text of the model has.
Fence == "~~~"

required_fields == <<"enhancedAnalysis", "technicalDetails", "recommendations", "confidence">>

\* the loop over required_fields on a dict: a missing field gets its default
RECURSIVE EnsureFields(_, _)
EnsureFields(parsed_json, k) ==
    IF k > Len(required_fields) THEN parsed_json
    ELSE LET field == required_fields[k]
         IN  IF parsed_json # EmptyDict /\ field \in DOMAIN parsed_json
             THEN EnsureFields(parsed_json, k + 1)
             ELSE EnsureFields([ f \in (IF parsed_json = EmptyDict THEN {} ELSE DOMAIN parsed_json)
                                       \cup {field} |->
                                   IF f = field THEN _get_default_field_value(field)
                                   ELSE parsed_json[f] ], k + 1)

\* the clean-up of the response text: strip, drop a leading fence with json, drop a
\* trailing fence, strip
CleanResponse(response_text) ==
    LET stripped == Strip(response_text)
        unfenced == IF StartsWith(stripped, Fence \o "json") THEN Slice(stripped, 7, Len(stripped))
                    ELSE stripped
        unclosed == IF EndsWith(unfenced, Fence) THEN Slice(unfenced, 0, Len(unfenced) - 3)
                    ELSE unfenced
    IN  Strip(unclosed)

_process_gemini_response(response_text) ==
    LET cleaned_response == CleanResponse(response_text)
        parsed_json == json_loads(cleaned_response)
    IN  CASE parsed_json.type = "JSONDecodeError" -> _fallback_analysis(EmptyDict)
          \* a value that is not a dict: assigning the missing field raises TypeError
          [] parsed_json.type = "list" -> _fallback_analysis(EmptyDict)
          [] OTHER -> json_dumps(EnsureFields(parsed_json.value, 1))

\* What the external model does with one call:
\*   kind = "uncalled"  the handler does not call it
\*   kind = "raises"    generate_content raises (network, quota, blocked response)
\*   kind = "text"      it returns response.text = text
Gemini(kind, text) == [kind |-> kind, text |-> text]

NoGemini == Gemini("uncalled", "")

GeminiTexts == {"not json", "[1]", "{}", PartialDocument, GeminiDocument,
                Fence \o "json\n" \o GeminiDocument \o "\n" \o Fence,
                Fence \o "\n{}\n" \o Fence}

GeminiOutcomes == {Gemini("raises", "")} \cup { Gemini("text", text) : text \in GeminiTexts }

analyze_with_gemini(adshield_report, original_text, model) ==
    IF model.kind = "raises" THEN _fallback_analysis(adshield_report)
    ELSE _process_gemini_response(model.text)

(***************************************************************************)
(* The service.  app is the module uvicorn serves: main.py with AdShield   *)
(* and the enrichment, or simple_main.py with SimpleAdShield.  The         *)
(* globals adshield_engine and gemini_model are None until lifespan runs;  *)
(* a handler that runs before it (lifespan switched off, or the app        *)
(* called directly) finds them None.  One request is handled at a time:    *)
(* pc is "idle" between requests and "responded" while the response of     *)
(* the last one is on its way out.  request is what the client sent, env   *)
(* what the collaborators did while it was handled, response what the      *)
(* handler answered.  frames holds the local variables of the calls of     *)
(* analyze that are under way: a handler runs its call to the end within   *)
(* one step, so between the steps of the service there is none.            *)
(***************************************************************************)
VARIABLES app, hash_order, started, adshield_engine, bias_classifier, gemini_model,
          pc, request, env, response, frames

vars == <<app, hash_order, started, adshield_engine, bias_classifier, gemini_model,
          pc, request, env, response, frames>>

NoRequest == [endpoint |-> "none"]

NoEnv == [fault |-> FALSE]

NoResponse == [status |-> 0]

Init ==
    /\ app \in {"main", "simple_main"}
    /\ hash_order \in HashOrders
    /\ started = "no"
    /\ adshield_engine = "None"
    /\ bias_classifier = "None"
    /\ gemini_model = "None"
    /\ pc = "idle"
    /\ request = NoRequest
    /\ env = NoEnv
    /\ response = NoResponse
    /\ frames = <<>>

\* main.lifespan: AdShield() with _init_models, then the Gemini configuration
Lifespan ==
    /\ app = "main"
    /\ started = "no"
    /\ pc = "idle"
    /\ \E engine_ok \in BOOLEAN, models_ok \in BOOLEAN, gemini_api_key \in BOOLEAN :
          IF engine_ok
          THEN /\ adshield_engine' = "AdShield"
               /\ bias_classifier' = IF models_ok THEN "pipeline" ELSE "None"
               /\ gemini_model' = IF gemini_api_key THEN "gemini-1.5-flash" ELSE "None"
               /\ started' = "yes"
          ELSE /\ started' = "failed"
               /\ UNCHANGED <<adshield_engine, bias_classifier, gemini_model>>
    /\ UNCHANGED <<frames, app, hash_order, pc, request, env, response>>

\* simple_main.lifespan
SimpleLifespan ==
    /\ app = "simple_main"
    /\ started = "no"
    /\ pc = "idle"
    /\ \E engine_ok \in BOOLEAN :
          IF engine_ok
          THEN adshield_engine' = "SimpleAdShield" /\ started' = "yes"
          ELSE started' = "failed" /\ UNCHANGED adshield_engine
    /\ UNCHANGED <<frames, app, hash_order, bias_classifier, gemini_model, pc, request, env, response>>

AnalysisRequest(prompt, generated_output, include_gemini_analysis) ==
    [endpoint                |-> "/api/analyze",
     prompt                  |-> prompt,
     generated_output        |-> generated_output,
     include_gemini_analysis |-> include_gemini_analysis]

Uncalled == Classifier("uncalled", "", 0)

\* the classifier block without its try/except: what the classifier raises, and the
\* KeyError of reading a malformed result, leave _analyze_bias
ClassifierErrorUncaught(classifier) == classifier.kind \in {"raises", "malformed"}

\* The try/except around the classifier call catches Exception: nothing the classifier
\* raises leaves _analyze_bias.
ClassifierErrorEscapes(classifier) == FALSE

\* adshield_engine.analyze(...) as the handlers see it: the report, or an exception.
\* e.fault is an internal failure of the engine on this call.
EngineCall(text, generated_output, e, order) ==
    IF e.fault \/ ClassifierErrorEscapes(e.classifier)
    THEN [raised |-> TRUE, error |-> "internal failure"]
    ELSE [raised |-> FALSE, value |-> analyze(text, generated_output, e.classifier, order)]

\* what the collaborators can do during one engine call
EngineEnvs == {[fault |-> TRUE, classifier |-> Uncalled]}
              \cup { [fault |-> FALSE, classifier |-> c] :
                       c \in IF bias_classifier = "None" THEN {NoClassifier} ELSE ClassifierOutcomes }

\* Python's None where a dict may stand
None == [None |-> TRUE]

HTTPException(status_code, detail) == [status |-> status_code, detail |-> detail]

\* the handler without its except HTTPException clause: the HTTPException raised in the
\* try block reaches except Exception and is answered as a 500
ConvertedTo500(http_exception) ==
    HTTPException(500, "Analysis failed: " \o http_exception.detail)

\* except HTTPException: raise.  The HTTPException raised in the try block leaves the
\* handler as it is.
ReraiseHTTPException(http_exception) == http_exception

\* main.analyze_content; call is what adshield_engine.analyze(...) does when it is reached
analyze_content(req, e, call) ==
    IF adshield_engine = "None"
    THEN ReraiseHTTPException(
             HTTPException(503, "AdShield engine not available. Service temporarily unavailable."))
    ELSE IF call.raised
         THEN HTTPException(500, "Analysis failed: " \o call.error)
         ELSE LET adshield_results == call.value
                  gemini_insights ==
                      IF req.include_gemini_analysis /\ gemini_model # "None"
                      THEN analyze_with_gemini(adshield_results, req.prompt, e.gemini).document
                      ELSE None
              IN  [status |-> 200,
                   body   |-> [promptInjection |-> adshield_results.promptInjection,
                               pii             |-> adshield_results.pii,
                               bias            |-> adshield_results.bias,
                               overall         |-> adshield_results.overall,
                               summary         |-> adshield_results.summary,
                               gemini_insights |-> gemini_insights]]

AnalyzeContent ==
    /\ app = "main"
    /\ started # "failed"
    /\ pc = "idle"
    /\ \E prompt \in Prompts, generated_output \in GeneratedOutputs, include \in BOOLEAN :
         \E e \in IF adshield_engine = "None" THEN {[fault |-> FALSE, classifier |-> Uncalled]}
                  ELSE EngineEnvs :
           \E g \in IF adshield_engine # "None" /\ ~e.fault /\ include /\ gemini_model # "None"
                    THEN GeminiOutcomes ELSE {NoGemini} :
           \E call \in {EngineCall(prompt, generated_output, e, hash_order)} :
              LET req == AnalysisRequest(prompt, generated_output, include)
                  ee  == [fault |-> e.fault, classifier |-> e.classifier, gemini |-> g]
              IN  /\ request' = req
                  /\ env' = ee
                  /\ response' = analyze_content(req, ee, call)
    /\ pc' = "responded"
    /\ UNCHANGED <<frames, app, hash_order, started, adshield_engine, bias_classifier, gemini_model>>

\* the largest batch analyze_batch accepts
BatchLimit == 50

MaxBatch == 2

BatchPrompts == {"Jailbreak", "a@b.co"}

BatchClassifierOutcomes == {Classifier("raises", "", 0), Classifier("result", "TOXIC", 85)}

BatchItem(prompt) == [prompt |-> prompt, generated_output |-> "", include_gemini_analysis |-> TRUE]

\* the request bodies of the model: every batch of up to MaxBatch items, and batches of
\* BatchLimit and of BatchLimit + 1 items whose prompts alternate
ShortBatches == UNION { [1..n -> { BatchItem(p) : p \in BatchPrompts }] : n \in 0..MaxBatch }

LongBatch(n, first, second) == [ i \in 1..n |-> BatchItem(IF i % 2 = 1 THEN first ELSE second) ]

LongBatches == { LongBatch(n, p, q) : n \in {BatchLimit, BatchLimit + 1},
                                       p \in BatchPrompts, q \in BatchPrompts }

Batches == ShortBatches \cup LongBatches

BatchItemEnvs == {[fault |-> TRUE, classifier |-> Uncalled]}
                 \cup { [fault |-> FALSE, classifier |-> c] :
                          c \in IF bias_classifier = "None" THEN {NoClassifier}
                                ELSE BatchClassifierOutcomes }

\* what the collaborators do during a batch of n items: anything on each item of a short
\* batch; on a long one, at most one failing item, the first, a middle or the last one
BatchEnvs(n) ==
    IF n <= MaxBatch THEN [1..n -> BatchItemEnvs]
    ELSE { [ i \in 1..n |-> [fault |-> i = k, classifier |-> IF i = k THEN Uncalled ELSE c] ] :
             k \in {0, 1, n \div 2, n},
             c \in IF bias_classifier = "None" THEN {NoClassifier} ELSE {Classifier("raises", "", 0)} }

\* the for loop of analyze_batch without the try/except in its body: the first item that
\* raises ends the loop
RECURSIVE BatchLoopAborting(_, _, _, _)
BatchLoopAborting(requests, calls, i, results) ==
    IF i > Len(requests) \/ calls[i].raised THEN results
    ELSE BatchLoopAborting(requests, calls, i + 1,
                           Append(results, [index |-> i - 1, status |-> "success",
                                            analysis |-> calls[i].value]))

\* the for loop of analyze_batch from item i on, results being the list so far; calls[i]
\* is what adshield_engine.analyze(...) does on item i
RECURSIVE BatchLoop(_, _, _, _)
BatchLoop(requests, calls, i, results) ==
    IF i > Len(requests) THEN results
    ELSE BatchLoop(requests, calls, i + 1,
                   Append(results,
                          IF calls[i].raised
                          THEN [index |-> i - 1, status |-> "error", error |-> calls[i].error]
                          ELSE [index |-> i - 1, status |-> "success", analysis |-> calls[i].value]))

\* main.analyze_batch
analyze_batch(requests, calls) ==
    IF adshield_engine = "None"
    THEN HTTPException(503, "AdShield engine not available")
    ELSE IF Len(requests) > BatchLimit
         THEN HTTPException(400, "Batch size too large. Maximum 50 items per request.")
         ELSE [status |-> 200, body |-> [results |-> BatchLoop(requests, calls, 1, <<>>)]]

AnalyzeBatch ==
    /\ app = "main"
    /\ started # "failed"
    /\ pc = "idle"
    /\ \E requests \in Batches :
         \E envs \in IF adshield_engine = "None" \/ Len(requests) > BatchLimit
                     THEN {<<>>} ELSE BatchEnvs(Len(requests)) :
         \E calls \in {[ i \in 1..Len(envs) |->
                            EngineCall(requests[i].prompt, requests[i].generated_output,
                                       envs[i], hash_order) ]} :
            /\ request' = [endpoint |-> "/api/analyze/batch", requests |-> requests]
            /\ env' = [fault |-> \E i \in 1..Len(envs) : envs[i].fault, items |-> envs]
            /\ response' = analyze_batch(requests, calls)
    /\ pc' = "responded"
    /\ UNCHANGED <<frames, app, hash_order, started, adshield_engine, bias_classifier, gemini_model>>

\* SimpleAdShield.analyze(...) as the handler sees it
SimpleEngineCall(text, generated_output, e) ==
    IF e.fault
    THEN [raised |-> TRUE, error |-> "internal failure"]
    ELSE [raised |-> FALSE, value |-> Simple_analyze(text, generated_output)]

\* simple_main.analyze_content
simple_analyze_content(req, e, call) ==
    IF adshield_engine = "None"
    THEN HTTPException(503, "AdShield engine not available")
    ELSE IF call.raised
         THEN HTTPException(500, "Analysis failed: " \o call.error)
         ELSE [status |-> 200, body |-> call.value]

SimpleAnalyzeContent ==
    /\ app = "simple_main"
    /\ started # "failed"
    /\ pc = "idle"
    /\ \E prompt \in Prompts, generated_output \in GeneratedOutputs :
         \E fault \in IF adshield_engine = "None" THEN {FALSE} ELSE BOOLEAN :
         \E call \in {SimpleEngineCall(prompt, generated_output, [fault |-> fault])} :
            LET req == [endpoint |-> "/api/analyze", prompt |-> prompt,
                        generated_output |-> generated_output]
            IN  /\ request' = req
                /\ env' = [fault |-> fault]
                /\ response' = simple_analyze_content(req, [fault |-> fault], call)
    /\ pc' = "responded"
    /\ UNCHANGED <<frames, app, hash_order, started, adshield_engine, bias_classifier, gemini_model>>

\* the response is sent; the handler keeps nothing of the request
Respond ==
    /\ pc = "responded"
    /\ pc' = "idle"
    /\ request' = NoRequest
    /\ env' = NoEnv
    /\ response' = NoResponse
    /\ UNCHANGED <<frames, app, hash_order, started, adshield_engine, bias_classifier, gemini_model>>

Next ==
    \/ Lifespan
    \/ SimpleLifespan
    \/ AnalyzeContent
    \/ AnalyzeBatch
    \/ SimpleAnalyzeContent
    \/ Respond

Spec == Init /\ [][Next]_vars

(***************************************************************************)
(* The engines called directly, as a unit test calls them: one call of     *)
(* _determine_risk_level on a score, one call of analyze, two calls of     *)
(* analyze on the same text with two generated outputs or on two texts     *)
(* with the same generated output, or two calls of                         *)
(* _calculate_overall_score on category scores that differ in one          *)
(* category, one call of _determine_injection_severity on a category and   *)
(* a matched text, with the score lookup that follows it, one call of      *)
(* _analyze_bias_context on a context window, or one call of each engine   *)
(* on the same input.  The call and its arguments are drawn at the start;  *)
(* the action makes the call and keeps what it returned in response.       *)
(***************************************************************************)
MaxOverallScore == 100

MaxCategoryScore == 100

\* the scores of the two categories held fixed while the third is raised
FixedScores == {0, 33, MaxCategoryScore}

\* the scores of the three categories with v for category k and f for the other two
ScoreTriple(k, v, f) ==
    [ j \in 1..3 |-> IF j = k THEN v ELSE IF j < k THEN f[j] ELSE f[j - 1] ]

\* category scores, and the same with the score of one category raised, by one or to the
\* top
ScorePairs ==
    { [scores   |-> ScoreTriple(k, lo, f),
       category |-> k,
       raised   |-> ScoreTriple(k, IF top THEN MaxCategoryScore ELSE lo + 1, f)] :
        k \in 1..3, f \in FixedScores \X FixedScores,
        lo \in 0..(MaxCategoryScore - 1), top \in BOOLEAN }

UnitClassifierOutcomes == {NoClassifier, Classifier("raises", "", 0),
                           Classifier("result", "TOXIC", 85), Classifier("result", "TOXIC", 100)}

\* the second text of a pair of calls: one that matches nothing, one with two injection
\* matches
PairTexts == {"hello", "/*jailbreak*/"}

\* the categories of the injection registry, and one that is not in the severity map
SeverityCategories ==
    { injection_patterns[c][1] : c \in 1..Len(injection_patterns) } \cup {"prompt_leak"}

\* the most indicators a context window holds when its text is repeated
MaxRepeatedIndicators == 4

\* a context window around keyword with the first n negative indicators before it and
\* the first q positive indicators after it; repeated, the same text twice over
ContextWindow(n, q, keyword, repeated) ==
    LET once == Join(" ", SubSeq(negative_words, 1, n) \o <<keyword>> \o SubSeq(positive_words, 1, q))
    IN  IF repeated THEN once \o " " \o once ELSE once

UnitCalls ==
    { [endpoint |-> "_determine_risk_level", score |-> score] : score \in 0..MaxOverallScore }
    \cup { [endpoint |-> "analyze", text |-> text, generated_output |-> g] :
             text \in Prompts, g \in GeneratedOutputs }
    \cup { [endpoint |-> "analyze twice", text |-> text, generated_output |-> g,
            other_output |-> h] :
             text \in Prompts, g \in GeneratedOutputs, h \in GeneratedOutputs }
    \cup { [endpoint |-> "analyze pair", text |-> text, other_text |-> t,
            generated_output |-> g] :
             text \in Prompts, t \in PairTexts, g \in GeneratedOutputs }
    \cup { [endpoint |-> "_determine_injection_severity", category |-> c, pattern |-> m] :
             c \in SeverityCategories, m \in Prompts }
    \cup { [endpoint |-> "_analyze_bias_context", negatives |-> w[1], positives |-> w[2],
            repeated |-> w[3], keyword |-> "old",
            context |-> ContextWindow(w[1], w[2], "old", w[3])] :
             w \in { v \in (0..Len(negative_words)) \X (0..Len(positive_words)) \X BOOLEAN :
                       v[3] => v[1] + v[2] <= MaxRepeatedIndicators } }
    \cup { [endpoint |-> "analyze both", text |-> text, generated_output |-> g] :
             text \in Prompts, g \in GeneratedOutputs }
    \cup { [endpoint |-> "_calculate_overall_score", scores |-> pair.scores,
            category |-> pair.category, raised |-> pair.raised] :
             pair \in ScorePairs }

UnitInit ==
    /\ app \in {"main", "simple_main"}
    /\ hash_order \in HashOrders
    /\ started = "yes"
    /\ adshield_engine = (IF app = "main" THEN "AdShield" ELSE "SimpleAdShield")
    /\ bias_classifier \in (IF app = "main" THEN {"None", "pipeline"} ELSE {"None"})
    /\ gemini_model = "None"
    /\ pc = "idle"
    /\ request \in UnitCalls
    /\ env \in { [fault |-> FALSE, classifier |-> c, other |-> d] :
                   c, d \in IF request.endpoint \notin {"analyze", "analyze twice", "analyze pair"}
                            THEN {Uncalled}
                            ELSE IF bias_classifier = "None" THEN {NoClassifier}
                            ELSE UnitClassifierOutcomes \ {NoClassifier} }
    /\ response = NoResponse
    /\ frames = <<>>

CallDetermineRiskLevel ==
    /\ pc = "idle"
    /\ request.endpoint = "_determine_risk_level"
    /\ response' = [status |-> 200,
                    body   |-> IF app = "main" THEN _determine_risk_level(request.score)
                               ELSE Simple_determine_risk_level(request.score)]
    /\ pc' = "responded"
    /\ UNCHANGED <<frames, app, hash_order, started, adshield_engine, bias_classifier, gemini_model,
                   request, env>>

\* the order of set iteration differing from one call to the next
IterationOrderPerCall(k) ==
    IF k = 1 THEN hash_order ELSE CHOOSE o \in HashOrders : o # hash_order

\* The order in which call number k of the process iterates a set of bias types: the
\* hashes of the strings are fixed when the interpreter starts, the same for every call.
IterationOrder(k) == hash_order

\* the engine of the app on one text and generated output, as call number k
EngineAnalyze(text, generated_output, classifier, k) ==
    IF app = "main" THEN analyze(text, generated_output, classifier, IterationOrder(k))
    ELSE Simple_analyze(text, generated_output)

CallAnalyze ==
    /\ pc = "idle"
    /\ request.endpoint = "analyze"
    /\ \E result \in {EngineAnalyze(request.text, request.generated_output, env.classifier, 1)} :
          response' = [status |-> 200, body |-> result]
    /\ pc' = "responded"
    /\ UNCHANGED <<frames, app, hash_order, started, adshield_engine, bias_classifier, gemini_model,
                   request, env>>

CallAnalyzeTwice ==
    /\ pc = "idle"
    /\ request.endpoint = "analyze twice"
    /\ \E results \in {[ k \in 1..2 |->
                          EngineAnalyze(request.text,
                                        IF k = 1 THEN request.generated_output
                                        ELSE request.other_output,
                                        IF k = 1 THEN env.classifier ELSE env.other, k) ]} :
          response' = [status |-> 200, body |-> results]
    /\ pc' = "responded"
    /\ UNCHANGED <<frames, app, hash_order, started, adshield_engine, bias_classifier, gemini_model,
                   request, env>>

\* _calculate_overall_score and _determine_risk_level of the engine of the app on the
\* category scores s
OverallOf(s) ==
    LET score == IF app = "main"
                 THEN _calculate_overall_score([score |-> s[1]], [score |-> s[2]], [score |-> s[3]])
                 ELSE Simple_calculate_overall_score([score |-> s[1]], [score |-> s[2]],
                                                     [score |-> s[3]])
    IN  [score     |-> score,
         riskLevel |-> IF app = "main" THEN _determine_risk_level(score)
                       ELSE Simple_determine_risk_level(score)]

CallCalculateOverallScore ==
    /\ pc = "idle"
    /\ request.endpoint = "_calculate_overall_score"
    /\ response' = [status |-> 200,
                    body   |-> <<OverallOf(request.scores), OverallOf(request.raised)>>]
    /\ pc' = "responded"
    /\ UNCHANGED <<frames, app, hash_order, started, adshield_engine, bias_classifier, gemini_model,
                   request, env>>

CallAnalyzePair ==
    /\ pc = "idle"
    /\ request.endpoint = "analyze pair"
    /\ \E results \in {[ k \in 1..2 |->
                          EngineAnalyze(IF k = 1 THEN request.text ELSE request.other_text,
                                        request.generated_output,
                                        IF k = 1 THEN env.classifier ELSE env.other, k) ]} :
          response' = [status |-> 200, body |-> results]
    /\ pc' = "responded"
    /\ UNCHANGED <<frames, app, hash_order, started, adshield_engine, bias_classifier, gemini_model,
                   request, env>>

\* severity = self._determine_injection_severity(category, match.group()) and the score
\* looked up for it
CallDetermineInjectionSeverity ==
    /\ pc = "idle"
    /\ request.endpoint = "_determine_injection_severity"
    /\ app = "main"
    /\ \E severity \in {_determine_injection_severity(request.category, request.pattern)} :
          response' = [status |-> 200,
                       body   |-> [severity |-> severity, score |-> SeverityScore(severity)]]
    /\ pc' = "responded"
    /\ UNCHANGED <<frames, app, hash_order, started, adshield_engine, bias_classifier, gemini_model,
                   request, env>>

CallAnalyzeBiasContext ==
    /\ pc = "idle"
    /\ request.endpoint = "_analyze_bias_context"
    /\ app = "main"
    /\ response' = [status |-> 200,
                    body   |-> _analyze_bias_context(request.context, request.keyword)]
    /\ pc' = "responded"
    /\ UNCHANGED <<frames, app, hash_order, started, adshield_engine, bias_classifier, gemini_model,
                   request, env>>

\* SimpleAdShield().analyze and AdShield().analyze, the latter with no classifier loaded,
\* on the same text and generated output
CallAnalyzeBoth ==
    /\ pc = "idle"
    /\ request.endpoint = "analyze both"
    /\ app = "main"
    /\ bias_classifier = "None"
    /\ \E results \in {[simple |-> Simple_analyze(request.text, request.generated_output),
                        full   |-> analyze(request.text, request.generated_output,
                                           NoClassifier, IterationOrder(1))]} :
          response' = [status |-> 200, body |-> results]
    /\ pc' = "responded"
    /\ UNCHANGED <<frames, app, hash_order, started, adshield_engine, bias_classifier, gemini_model,
                   request, env>>

UnitNext ==
    \/ CallDetermineRiskLevel
    \/ CallAnalyzeBoth
    \/ CallAnalyzeBiasContext
    \/ CallDetermineInjectionSeverity
    \/ CallAnalyzePair
    \/ CallCalculateOverallScore
    \/ CallAnalyze
    \/ CallAnalyzeTwice

UnitSpec == UnitInit /\ [][UnitNext]_vars

(***************************************************************************)
(* The properties.  AnalyzeCalls is every call of AdShield.analyze whose   *)
(* result the response in hand carries, with the arguments of the call and *)
(* what the classifier did during it.                                      *)
(***************************************************************************)
AnalyzeCalls ==
    IF app # "main" \/ pc # "responded" \/ response.status # 200 THEN {}
    ELSE IF request.endpoint = "/api/analyze"
         THEN {[text             |-> request.prompt,
                generated_output |-> request.generated_output,
                classifier       |-> env.classifier,
                result           |-> response.body]}
         ELSE { [text             |-> request.requests[i].prompt,
                 generated_output |-> request.requests[i].generated_output,
                 classifier       |-> env.items[i].classifier,
                 result           |-> response.body.results[i].analysis] :
                  i \in { j \in 1..Len(response.body.results) :
                            response.body.results[j].status = "success" } }

\* the results of SimpleAdShield.analyze that the response in hand carries
SimpleResults ==
    IF app = "simple_main" /\ pc = "responded" /\ response.status = 200
    THEN {response.body} ELSE {}

Range(seq) == { seq[k] : k \in 1..Len(seq) }

\* the largest number of a set of numbers, 0 for the empty set
SetMax(S) == IF S = {} THEN 0 ELSE CHOOSE m \in S : \A x \in S : x <= m

\* C1: whatever the texts and whatever the classifier does (absent, failing, any label
\* with a score in [0,1]), promptInjection.score, pii.score, bias.score and overall.score
\* of a result of AdShield.analyze are each between 0 and 100 inclusive.
C1_ScoresInRange ==
    \A c \in AnalyzeCalls :
        /\ c.result.promptInjection.score \in 0..100
        /\ c.result.pii.score \in 0..100
        /\ c.result.bias.score \in 0..100
        /\ c.result.overall.score \in 0..100

\* a result in which every category is at the cap, with the classifier answering
C1_Witness ==
    \E c \in AnalyzeCalls :
        /\ c.classifier.kind = "result"
        /\ c.result.promptInjection.score = 100
        /\ c.result.pii.score = 100
        /\ c.result.bias.score = 100
        /\ c.result.overall.score = 100

ListedInjectionMax(report) == SetMax({ SeverityScore(d.severity) : d \in Range(report.indices) })

ListedPiiMax(report) == SetMax({ sensitivity_scores(d.piiType) : d \in Range(report.indices) })

ListedBiasMax(report) == SetMax({ d.intensity : d \in Range(report.indices) })

\* the toxicity signal of a classifier outcome: the score of a TOXIC label above 0.7
ToxicitySignal(classifier) ==
    IF classifier.kind = "result" /\ classifier.label = "TOXIC" /\ classifier.score > 70
    THEN {classifier.score} ELSE {}

\* C2 as stated: in every result of AdShield.analyze the score of each of the three
\* category reports is the maximum of the score values of the detections that report
\* lists (severity score, sensitivity, intensity), and 0 when it lists none.
C2_AsStated ==
    \A c \in AnalyzeCalls :
        /\ c.result.promptInjection.score = ListedInjectionMax(c.result.promptInjection)
        /\ c.result.pii.score = ListedPiiMax(c.result.pii)
        /\ c.result.bias.score = ListedBiasMax(c.result.bias)

\* C2 as the code has it: the promptInjection and pii scores are the maximum over the
\* detections listed (0 when none is listed); the bias score is the maximum over the
\* intensities of all keyword occurrences in the text, listed or not, and the
\* classifier's toxicity signal when there is one, so it is at least the maximum over the
\* listed detections.
C2_ScoreIsMax ==
    \A c \in AnalyzeCalls :
        /\ c.result.promptInjection.score = ListedInjectionMax(c.result.promptInjection)
        /\ c.result.pii.score = ListedPiiMax(c.result.pii)
        /\ c.result.bias.score =
              SetMax({ o.intensity :
                         o \in Range(KeywordScanTable[FullText(c.text, c.generated_output)]) }
                     \cup ToxicitySignal(c.classifier))
        /\ c.result.bias.score >= ListedBiasMax(c.result.bias)

\* a keyword occurrence below the reporting threshold: a bias score with nothing listed
C2_Witness ==
    \E c \in AnalyzeCalls :
        /\ c.classifier.kind = "absent"
        /\ c.result.bias.indices = <<>>
        /\ c.result.bias.score > 0

\* C3: in every result of AdShield.analyze and of SimpleAdShield.analyze, each of the
\* three category reports has detected true exactly when its list of detections is not
\* empty.
C3_DetectedIffListed ==
    \A r \in { c.result : c \in AnalyzeCalls } \cup SimpleResults :
        /\ r.promptInjection.detected <=> (r.promptInjection.indices # <<>>)
        /\ r.pii.detected <=> (r.pii.indices # <<>>)
        /\ r.bias.detected <=> (r.bias.indices # <<>>)

\* a result with a category detected and another with a score but nothing listed
C3_Witness ==
    \E c \in AnalyzeCalls :
        /\ c.result.pii.detected
        /\ c.result.pii.indices # <<>>
        /\ ~c.result.bias.detected
        /\ c.result.bias.score > 0

\* C4: in every result of AdShield.analyze, overall.score is
\* min(floor(0.4 * promptInjection.score + 0.3 * pii.score + 0.3 * bias.score), 100) of the
\* category scores in the same result, that is floor((4i + 3p + 3b) / 10) capped at 100.
C4_OverallIsWeighted ==
    \A c \in AnalyzeCalls :
        LET i == c.result.promptInjection.score
            p == c.result.pii.score
            b == c.result.bias.score
            floored == (4 * i + 3 * p + 3 * b) \div 10
        IN  c.result.overall.score = (IF floored < 100 THEN floored ELSE 100)

\* a result with every category scoring, the weighted sum not whole and under the cap
C4_Witness ==
    \E c \in AnalyzeCalls :
        LET i == c.result.promptInjection.score
            p == c.result.pii.score
            b == c.result.bias.score
        IN  /\ i > 0 /\ p > 0 /\ b > 0
            /\ (4 * i + 3 * p + 3 * b) % 10 # 0
            /\ c.result.overall.score < 100

\* the result of the direct call of analyze in hand, of either engine
UnitResults ==
    IF pc = "responded" /\ request.endpoint = "analyze" THEN {response.body} ELSE {}

\* C5: for every overall score in 0..100 the risk level is high exactly when score >= 80,
\* medium exactly when 50 <= score <= 79 and low exactly when score <= 49 (so 79 is medium,
\* 80 high, 49 low, 50 medium), and the risk level of every analyze result is this
\* function of the overall score of the same result.
C5_RiskLevelBands ==
    /\ (pc = "responded" /\ request.endpoint = "_determine_risk_level") =>
          /\ (response.body = "high") <=> (request.score >= 80)
          /\ (response.body = "medium") <=> (50 <= request.score /\ request.score <= 79)
          /\ (response.body = "low") <=> (request.score <= 49)
    /\ \A r \in UnitResults :
          /\ (r.overall.riskLevel = "high") <=> (r.overall.score >= 80)
          /\ (r.overall.riskLevel = "medium") <=> (50 <= r.overall.score /\ r.overall.score <= 79)
          /\ (r.overall.riskLevel = "low") <=> (r.overall.score <= 49)

\* the score just under the high band, answered medium
C5_Witness ==
    /\ pc = "responded"
    /\ request.endpoint = "_determine_risk_level"
    /\ request.score = 79
    /\ response.body = "medium"

\* every match of every pattern of the injection registry in each text of the model:
\* InjectionMatchTable[t][c][k] is finditer of pattern k of category c on t.lower()
InjectionMatchTable ==
    [ t \in Prompts |->
        [ c \in 1..Len(injection_patterns) |->
            [ k \in 1..Len(injection_patterns[c][2]) |->
                FindIter(injection_patterns[c][2][k], Lower(t)) ] ] ]

\* one <<c, k, j>> per match: match j of pattern k of category c
MatchIds(matches) ==
    UNION { UNION { { <<c, k, j>> : j \in 1..Len(matches[c][k]) } :
                    k \in 1..Len(matches[c]) } :
            c \in 1..Len(matches) }

\* C6: _analyze_prompt_injection records one detection per match of a pattern and its
\* score is the maximum of the matches' scores, not their sum or average: with a match of
\* critical severity the score is exactly 100 whatever other matches there are.
C6_InjectionMaxNotSum ==
    \A c \in AnalyzeCalls :
        LET report  == c.result.promptInjection
            matches == InjectionMatchTable[c.text]
            found   == MatchIds(matches)
        IN  /\ Len(report.indices) = Cardinality(found)
            /\ \A m \in found :
                  \E i \in 1..Len(report.indices) :
                     /\ report.indices[i].start = matches[m[1]][m[2]][m[3]].start
                     /\ report.indices[i].end = matches[m[1]][m[2]][m[3]].end
                     /\ report.indices[i].type = injection_patterns[m[1]][1]
            /\ report.score = ListedInjectionMax(report)
            /\ (\E d \in Range(report.indices) : d.severity = "critical") => report.score = 100

\* a critical match overlapping a match of lower severity: two detections, score 100
C6_Witness ==
    \E c \in AnalyzeCalls :
        \E d, e \in Range(c.result.promptInjection.indices) :
            /\ d.severity = "critical"
            /\ e.severity # "critical"
            /\ d.start <= e.start /\ e.end <= d.end
            /\ c.result.promptInjection.score = 100

\* C7: the promptInjection report of analyze depends on the input text alone: for one
\* text it is the same whatever the generated output, also when the generated output
\* holds injection phrases.
C7_InjectionIgnoresOutput ==
    (pc = "responded" /\ request.endpoint = "analyze twice") =>
        response.body[1].promptInjection = response.body[2].promptInjection

\* two calls on a text without injection, one with no generated output and one whose
\* generated output is an injection phrase: neither promptInjection report lists anything
C7_Witness ==
    /\ pc = "responded"
    /\ request.endpoint = "analyze twice"
    /\ app = "main"
    /\ request.generated_output = ""
    /\ request.other_output = "jailbreak"
    /\ response.body[1].promptInjection.indices = <<>>
    /\ response.body[2].promptInjection.indices = <<>>

\* C8: for a batch of n <= 50 items with the engine initialised, the response has exactly
\* n entries, entry i carries index i in submission order, an entry is a success with its
\* analysis when analyze returned for the item and an error with a message when analyze
\* raised for it, the items after a failing one are still analysed, and no exception
\* leaves the batch call.
C8_BatchPartialFailure ==
    (/\ pc = "responded"
     /\ request.endpoint = "/api/analyze/batch"
     /\ adshield_engine # "None"
     /\ Len(request.requests) <= 50) =>
        /\ response.status = 200
        /\ Len(response.body.results) = Len(request.requests)
        /\ \A i \in 1..Len(request.requests) :
              LET entry == response.body.results[i]
                  item  == request.requests[i]
                  e     == env.items[i]
              IN  /\ entry.index = i - 1
                  /\ IF e.fault \/ ClassifierErrorEscapes(e.classifier)
                     THEN /\ entry.status = "error"
                          /\ entry.error # ""
                     ELSE /\ entry.status = "success"
                          /\ entry.analysis = analyze(item.prompt, item.generated_output,
                                                      e.classifier, hash_order)

\* a batch of the full 50 items whose first item fails and whose last item is analysed
C8_Witness ==
    /\ pc = "responded"
    /\ request.endpoint = "/api/analyze/batch"
    /\ response.status = 200
    /\ Len(request.requests) = 50
    /\ Len(response.body.results) = 50
    /\ response.body.results[1].status = "error"
    /\ response.body.results[50].status = "success"
    /\ response.body.results[50].index = 49

\* the enrichment was called and raised, or answered a text that is not a JSON object
EnrichmentFailed ==
    /\ app = "main"
    /\ pc = "responded"
    /\ request.endpoint = "/api/analyze"
    /\ response.status = 200
    /\ \/ env.gemini.kind = "raises"
       \/ /\ env.gemini.kind = "text"
          /\ json_loads(CleanResponse(env.gemini.text)).type # "dict"

\* C9 as stated: when the enrichment call raises or its response cannot be parsed as the
\* expected structure, the elaboration returned is the fallback built from the report
\* that was passed in: it states the overall score, the risk level and the three category
\* scores of that report, and its confidence is a fixed value within 0.5..0.8.
C9_AsStated ==
    EnrichmentFailed =>
        LET report   == response.body
            insights == response.body.gemini_insights
        IN  /\ insights.enhancedAnalysis.riskAssessment =
                  "Content assessed with " \o ToString(report.overall.score)
                  \o "/100 risk score (" \o report.overall.riskLevel
                  \o " risk level). AdShield analysis completed successfully."
            /\ insights.technicalDetails.promptInjectionAnalysis =
                  "Prompt injection score: " \o ToString(report.promptInjection.score) \o "/100"
            /\ insights.technicalDetails.piiAnalysis =
                  "PII detection score: " \o ToString(report.pii.score) \o "/100"
            /\ insights.technicalDetails.biasAnalysis =
                  "Bias analysis score: " \o ToString(report.bias.score) \o "/100"
            /\ insights.confidence.overall \in 50..80

\* an unparsable answer on a report with a score: the fallback states 0 and "unknown"
C9_Witness ==
    /\ EnrichmentFailed
    /\ env.gemini.kind = "text"
    /\ response.body.overall.score > 0
    /\ response.body.gemini_insights.enhancedAnalysis.riskAssessment =
          "Content assessed with 0/100 risk score (unknown risk level). AdShield analysis completed successfully."

\* what the classifier does is one of: not loaded, raises, empty or malformed result
ClassifierDegraded(classifier) == classifier.kind \in {"absent", "raises", "empty", "malformed"}

\* the bias report from the keywords alone
KeywordOnlyBias(text) == _analyze_bias(text, NoClassifier)

\* C10: when the classifier is absent (it failed to initialise), raises, or returns a
\* malformed result during a call, AdShield.analyze still completes without raising and
\* the bias report is the keyword-only bias report of the same text: same score, detected
\* flag, detections and per-type scores.
C10_ClassifierDegrades ==
    /\ (/\ app = "main"
        /\ pc = "responded"
        /\ request.endpoint = "/api/analyze"
        /\ adshield_engine # "None"
        /\ ~env.fault
        /\ ClassifierDegraded(env.classifier)) =>
           /\ response.status = 200
           /\ response.body.bias =
                 KeywordOnlyBias(FullText(request.prompt, request.generated_output))
    /\ (/\ pc = "responded"
        /\ request.endpoint = "/api/analyze/batch"
        /\ response.status = 200) =>
           \A i \in 1..Len(request.requests) :
              (~env.items[i].fault /\ ClassifierDegraded(env.items[i].classifier)) =>
                 /\ response.body.results[i].status = "success"
                 /\ response.body.results[i].analysis.bias =
                       KeywordOnlyBias(FullText(request.requests[i].prompt,
                                                request.requests[i].generated_output))

\* a call during which the loaded classifier raises, answered with the keyword score
C10_Witness ==
    /\ app = "main"
    /\ pc = "responded"
    /\ request.endpoint = "/api/analyze"
    /\ bias_classifier = "pipeline"
    /\ env.classifier.kind = "raises"
    /\ response.status = 200
    /\ response.body.bias.score = 40
    /\ response.body.bias.detected

\* the two results of a direct double call of AdShield.analyze in hand, with the two
\* generated outputs and what the classifier did on each call
TwiceCalls ==
    IF pc = "responded" /\ request.endpoint = "analyze twice" /\ app = "main"
    THEN {[text |-> request.text,
           outputs |-> <<request.generated_output, request.other_output>>,
           classifiers |-> <<env.classifier, env.other>>,
           results |-> response.body]}
    ELSE {}

MaxCalls == 2

Calls == 1..MaxCalls

\* text and generated output of a call: nothing to find, an injection with PII and bias
\* in the output, bias keywords of two types
ConcInputs == { <<"hello", "">>,
                <<"Jailbreak", "123-45-6789 all old">>,
                <<"Old", "all old man 10.0.0.1">> }

\* what a loaded classifier does on a call here: it reports TOXIC above the threshold
ConcClassifierOutcomes == {Classifier("result", "TOXIC", 85)}

NoFrame == [full_text |-> "", prompt_injection |-> None, pii_analysis |-> None,
            detections |-> <<>>, bias_scores |-> <<>>, bias_analysis |-> None]

\* the accumulators kept on the engine instance: one frame for all the calls
FrameOnInstance(c) == 1

\* full_text, detections, bias_scores and the reports are local variables: every call
\* has a frame of its own
FrameOf(c) == c

ConcInit ==
    /\ app = "main"
    /\ hash_order \in HashOrders
    /\ started = "yes"
    /\ adshield_engine = "AdShield"
    /\ bias_classifier \in {"None", "pipeline"}
    /\ gemini_model = "None"
    /\ pc = [c \in Calls |-> "called"]
    /\ request \in [Calls -> { [endpoint |-> "analyze", text |-> i[1], generated_output |-> i[2]] :
                                 i \in ConcInputs }]
    /\ env \in [Calls -> { [fault |-> FALSE, classifier |-> k] :
                             k \in IF bias_classifier = "None" THEN {NoClassifier}
                                   ELSE ConcClassifierOutcomes }]
    /\ response = [c \in Calls |-> NoResponse]
    /\ frames = [f \in Calls |-> NoFrame]

\* one statement group of call c: it runs at position from, leaves the frame as frame
\* and goes on at position to
ConcStep(c, from, to, frame) ==
    /\ pc[c] = from
    /\ frames' = [frames EXCEPT ![FrameOf(c)] = frame]
    /\ pc' = [pc EXCEPT ![c] = to]
    /\ UNCHANGED <<app, hash_order, started, adshield_engine, bias_classifier, gemini_model,
                   request, env, response>>

\* full_text = f"{text} {generated_output}".strip()
ConcFullText(c) ==
    ConcStep(c, "called", "injection",
             [frames[FrameOf(c)] EXCEPT
                 !.full_text = FullText(request[c].text, request[c].generated_output)])

\* prompt_injection = self._analyze_prompt_injection(text)
ConcInjection(c) ==
    ConcStep(c, "injection", "pii",
             [frames[FrameOf(c)] EXCEPT !.prompt_injection = InjectionTable[request[c].text]])

\* pii_analysis = self._analyze_pii(full_text)
ConcPii(c) ==
    ConcStep(c, "pii", "bias",
             [frames[FrameOf(c)] EXCEPT !.pii_analysis = PiiTable[frames[FrameOf(c)].full_text]])

\* _analyze_bias(full_text), the keyword loops: detections and bias_scores
ConcBiasKeywords(c) ==
    \E occurrences \in {KeywordScanTable[frames[FrameOf(c)].full_text]} :
        ConcStep(c, "bias", "classifier",
                 [frames[FrameOf(c)] EXCEPT
                     !.detections  = SelectSeq(occurrences, LAMBDA o : o.intensity > ReportThreshold),
                     !.bias_scores = [ t \in 1..Len(bias_keywords) |->
                                         TypeScore(occurrences, bias_keywords[t][1]) ]])

\* _analyze_bias(full_text), the classifier block and the return
ConcBiasClassifier(c) ==
    \E bias_scores \in {frames[FrameOf(c)].bias_scores}, detections \in {frames[FrameOf(c)].detections} :
      \E overall_bias_score \in {MaxScore(BiasScoreValues(bias_scores, env[c].classifier), 1, 0)} :
        ConcStep(c, "classifier", "aggregate",
                 [frames[FrameOf(c)] EXCEPT
                     !.bias_analysis = [score     |-> Min(overall_bias_score, 100),
                                        detected  |-> Len(detections) > 0,
                                        indices   |-> detections,
                                        racial    |-> bias_scores[1],
                                        gender    |-> bias_scores[2],
                                        age       |-> bias_scores[3],
                                        religious |-> bias_scores[4]]])

\* overall score, risk level, summary and the return of analyze: the frame is dropped
ConcReturn(c) ==
    /\ pc[c] = "aggregate"
    /\ \E frame \in {frames[FrameOf(c)]} :
          response' = [response EXCEPT ![c] =
                          [status |-> 200,
                           body   |-> Compose(frame.prompt_injection, frame.pii_analysis,
                                              frame.bias_analysis, hash_order)]]
    /\ frames' = [frames EXCEPT ![FrameOf(c)] = NoFrame]
    /\ pc' = [pc EXCEPT ![c] = "returned"]
    /\ UNCHANGED <<app, hash_order, started, adshield_engine, bias_classifier, gemini_model,
                   request, env>>

ConcNext ==
    \E c \in Calls :
        \/ ConcFullText(c)
        \/ ConcInjection(c)
        \/ ConcPii(c)
        \/ ConcBiasKeywords(c)
        \/ ConcBiasClassifier(c)
        \/ ConcReturn(c)

ConcSpec == ConcInit /\ [][ConcNext]_vars

\* a step writes nothing the calls share: the engine stays as it is, and a frame changes
\* only in a step of the call it belongs to
WritesOwnFrameOnly ==
    /\ UNCHANGED <<app, hash_order, started, adshield_engine, bias_classifier, gemini_model>>
    /\ \A f \in Calls : frames'[f] # frames[f] => pc'[f] # pc[f]

\* what a returned call answered is what analyze answers on its arguments, run alone
ReturnsAsAlone ==
    \A c \in Calls :
        pc[c] = "returned" =>
            response[c].body = analyze(request[c].text, request[c].generated_output,
                                       env[c].classifier, hash_order)

\* C12: under any interleaving of concurrent calls of analyze on one engine, no call
\* writes to the registries or to any other state the calls share, and each call returns
\* the result it would return if it ran alone.
C12_ConcurrentCallsIsolated == []ReturnsAsAlone /\ [][WritesOwnFrameOnly]_vars

\* two calls on different texts under way at once, the first about to aggregate and the
\* second returned with its detections
C12_Witness ==
    /\ frames # <<>>
    /\ pc[1] = "aggregate"
    /\ pc[2] = "returned"
    /\ request[1].text = "hello"
    /\ request[2].text = "Jailbreak"
    /\ env[2].classifier.kind = "result"
    /\ ~frames[1].prompt_injection.detected
    /\ response[2].body.promptInjection.detected
    /\ response[2].body.bias.score = 85

\* every match of every pattern of the PII registry in each combined text of the model
PiiMatchTable ==
    [ t \in FullTexts |->
        [ k \in 1..Len(pii_patterns) |-> FindIter(pii_patterns[k][2], t) ] ]

\* the combined texts of the model in which no keyword of the bias lexicon occurs
KeywordFreeTexts ==
    { t \in FullTexts :
        \A c \in 1..Len(bias_keywords) :
            \A k \in 1..Len(bias_keywords[c][2]) : ~Contains(Lower(t), bias_keywords[c][2][k]) }

\* no injection pattern matches the text, no PII pattern and no bias keyword the combined
\* text, and the classifier gives no toxicity signal
NothingMatches(c) ==
    /\ MatchIds(InjectionMatchTable[c.text]) = {}
    /\ \A k \in 1..Len(pii_patterns) :
          PiiMatchTable[FullText(c.text, c.generated_output)][k] = <<>>
    /\ FullText(c.text, c.generated_output) \in KeywordFreeTexts
    /\ ToxicitySignal(c.classifier) = {}

\* C13: on every input in which no injection pattern, no PII pattern and no bias keyword
\* matches, and with no classifier signal, analyze returns detected false and score 0 in
\* all three categories, overall score 0, risk level low, and a summary whose riskFactors
\* is the single no-significant-risks sentence and whose recommendations is the single
\* matching recommendation.
C13_NothingDetected ==
    \A c \in AnalyzeCalls :
        NothingMatches(c) =>
            /\ ~c.result.promptInjection.detected
            /\ ~c.result.pii.detected
            /\ ~c.result.bias.detected
            /\ c.result.promptInjection.score = 0
            /\ c.result.pii.score = 0
            /\ c.result.bias.score = 0
            /\ c.result.overall = [score |-> 0, riskLevel |-> "low"]
            /\ c.result.summary.riskFactors = <<"No significant security risks detected">>
            /\ c.result.summary.recommendations = <<"Content appears safe for processing">>

\* a text that matches nothing, analysed with a classifier that answers below the
\* threshold
C13_Witness ==
    \E c \in AnalyzeCalls :
        /\ NothingMatches(c)
        /\ c.text = "hello"
        /\ c.classifier.kind = "result"
        /\ c.classifier.label = "TOXIC"
        /\ c.classifier.score = 70
        /\ c.result.overall.score = 0
        /\ Len(c.result.summary.riskFactors) = 1

\* the two answers of the direct double call of _calculate_overall_score in hand, of
\* either engine: on the scores and on the scores with one category raised
OverallPairs ==
    IF pc = "responded" /\ request.endpoint = "_calculate_overall_score"
    THEN {[scores |-> request.scores, raised |-> request.raised,
           before |-> response.body[1], after |-> response.body[2]]}
    ELSE {}

RiskRank(risk_level) ==
    CASE risk_level = "low" -> 0 [] risk_level = "medium" -> 1 [] risk_level = "high" -> 2

\* C14: with category scores in 0..100, raising the score of one of injection, PII or
\* bias while the other two stay as they are never lowers the overall score, and so
\* never lowers the risk level.
C14_OverallMonotonic ==
    \A c \in OverallPairs :
        (/\ \A j \in 1..3 : c.scores[j] <= c.raised[j]
         /\ \E j \in 1..3 : c.scores[j] < c.raised[j])
        => /\ c.before.score <= c.after.score
           /\ RiskRank(c.before.riskLevel) <= RiskRank(c.after.riskLevel)

\* one more point of injection carries the overall score from 79 to 80, medium to high
C14_Witness ==
    \E c \in OverallPairs :
        /\ c.scores = <<49, 100, 100>>
        /\ c.raised = <<50, 100, 100>>
        /\ c.before = [score |-> 79, riskLevel |-> "medium"]
        /\ c.after = [score |-> 80, riskLevel |-> "high"]

\* the pairs of results of AdShield.analyze in hand: of two calls on one text with two
\* generated outputs, or on two texts with one generated output
ResultPairs ==
    IF pc = "responded" /\ request.endpoint \in {"analyze twice", "analyze pair"} /\ app = "main"
    THEN {response.body} ELSE {}

SameFlags(r, q) ==
    /\ r.promptInjection.detected = q.promptInjection.detected
    /\ r.pii.detected = q.pii.detected
    /\ r.bias.detected = q.bias.detected

BiasTypes(r) == { d.biasType : d \in Range(r.bias.indices) }

\* C15 as stated: two results of AdShield.analyze that agree on the three detected flags
\* and on the overall risk level have the same summary: riskFactors, recommendations and
\* narrative text, whatever their detection counts or bias types.
C15_AsStated ==
    \A p \in ResultPairs :
        (SameFlags(p[1], p[2]) /\ p[1].overall.riskLevel = p[2].overall.riskLevel)
        => p[1].summary = p[2].summary

\* C15 as the code has it: riskFactors and recommendations are the same in two results
\* that agree on the three detected flags; the narrative text is the same in two results
\* of one process that agree on the flags, on the risk level, on the number of injection
\* detections, on the number of PII detections and on the set of bias types detected.
C15_SummaryDerived ==
    \A p \in ResultPairs :
        /\ SameFlags(p[1], p[2]) =>
              /\ p[1].summary.riskFactors = p[2].summary.riskFactors
              /\ p[1].summary.recommendations = p[2].summary.recommendations
        /\ (/\ SameFlags(p[1], p[2])
            /\ p[1].overall.riskLevel = p[2].overall.riskLevel
            /\ Len(p[1].promptInjection.indices) = Len(p[2].promptInjection.indices)
            /\ Len(p[1].pii.indices) = Len(p[2].pii.indices)
            /\ BiasTypes(p[1]) = BiasTypes(p[2]))
           => p[1].summary.trustLens = p[2].summary.trustLens

\* two results with the same flags and risk level, one with one injection detection and
\* one with two: the same riskFactors, a different narrative
C15_Witness ==
    \E p \in ResultPairs :
        /\ request.endpoint = "analyze pair"
        /\ SameFlags(p[1], p[2])
        /\ p[1].promptInjection.detected
        /\ p[1].overall.riskLevel = p[2].overall.riskLevel
        /\ Len(p[1].promptInjection.indices) = 1
        /\ Len(p[2].promptInjection.indices) = 2
        /\ p[1].summary.riskFactors = p[2].summary.riskFactors
        /\ p[1].summary.trustLens # p[2].summary.trustLens

\* every summary in hand with the three reports it was made from, of either engine
Summaries ==
    { [engine |-> "AdShield", promptInjection |-> c.result.promptInjection, pii |-> c.result.pii,
       bias |-> c.result.bias, summary |-> c.result.summary] : c \in AnalyzeCalls }
    \cup { [engine |-> "SimpleAdShield", promptInjection |-> r.promptInjection, pii |-> r.pii,
            bias |-> r.bias, summary |-> r.summary] : r \in SimpleResults }

\* the fixed risk-factor sentences of the detected categories, in the order injection,
\* PII, bias
FactorsOf(s) ==
    (IF s.promptInjection.detected THEN <<"Potential prompt injection attempts detected">>
     ELSE <<>>)
    \o (IF s.pii.detected THEN <<"Personally identifiable information found in content">>
        ELSE <<>>)
    \o (IF s.bias.detected THEN <<"Potential bias indicators found in content">> ELSE <<>>)

\* the fixed recommendations of the detected categories, in the same order
AdviceOf(s) ==
    (IF s.promptInjection.detected THEN <<"Review and sanitize user inputs before processing">>
     ELSE <<>>)
    \o (IF s.pii.detected THEN <<"Implement PII masking or removal procedures">> ELSE <<>>)
    \o (IF s.bias.detected
        THEN <<IF s.engine = "AdShield"
               THEN "Review content for inclusive language and bias mitigation"
               ELSE "Review content for inclusive language">>
        ELSE <<>>)

DetectedCount(s) ==
    Cardinality({ k \in 1..3 : <<s.promptInjection, s.pii, s.bias>>[k].detected })

\* C16: in every summary of _generate_summary, of AdShield and of SimpleAdShield,
\* riskFactors and recommendations have the same length: the number of categories
\* detected when there is one at least, with one fixed pair of sentences per detected
\* category in the order injection, PII, bias, and 1 when none is detected; the
\* no-significant-risks sentence is there exactly when no category is detected.
C16_SummaryPairs ==
    \A s \in Summaries :
        LET n == DetectedCount(s)
        IN  /\ Len(s.summary.riskFactors) = Len(s.summary.recommendations)
            /\ Len(s.summary.riskFactors) = (IF n >= 1 THEN n ELSE 1)
            /\ n >= 1 => /\ s.summary.riskFactors = FactorsOf(s)
                         /\ s.summary.recommendations = AdviceOf(s)
            /\ ("No significant security risks detected" \in Range(s.summary.riskFactors))
                  <=> (n = 0)
            /\ ("Content appears safe for processing" \in Range(s.summary.recommendations))
                  <=> (n = 0)

\* a summary of SimpleAdShield with two categories detected at low risk
C16_Witness ==
    \E s \in Summaries :
        /\ s.engine = "SimpleAdShield"
        /\ DetectedCount(s) = 2
        /\ ~s.promptInjection.detected
        /\ response.body.overall.riskLevel = "low"
        /\ Len(s.summary.riskFactors) = 2

\* the fixed category table of severities
SeverityTable(category) ==
    CASE category = "system_manipulation" -> "critical"
      [] category = "jailbreak_attempts"  -> "high"
      [] category = "ignore_instructions" -> "medium"
      [] category = "role_manipulation"   -> "medium"
      [] OTHER                            -> "low"

\* the score of a severity
ScoreTable(severity) ==
    CASE severity = "low" -> 25 [] severity = "medium" -> 50
      [] severity = "high" -> 75 [] severity = "critical" -> 100

\* C17: every injection detection of AdShield._analyze_prompt_injection carries the
\* severity the fixed category table gives its category (system_manipulation critical,
\* jailbreak_attempts high, ignore_instructions and role_manipulation medium, any other
\* category low), and the score a detection contributes is 25, 50, 75 or 100 for low,
\* medium, high, critical.
C17_SeverityTable ==
    /\ (pc = "responded" /\ request.endpoint = "_determine_injection_severity") =>
          /\ response.body.severity = SeverityTable(request.category)
          /\ response.body.score = ScoreTable(response.body.severity)
    /\ (app = "main" /\ pc = "responded" /\ request.endpoint = "analyze") =>
          LET report == response.body.promptInjection
          IN  /\ \A d \in Range(report.indices) : d.severity = SeverityTable(d.type)
              /\ report.score = SetMax({ ScoreTable(d.severity) : d \in Range(report.indices) })

\* a category that is not in the map, answered low with score 25
C17_Witness ==
    /\ pc = "responded"
    /\ request.endpoint = "_determine_injection_severity"
    /\ request.category = "prompt_leak"
    /\ response.body = [severity |-> "low", score |-> 25]

\* the fixed table of sensitivities
SensitivityTable(pii_type) ==
    CASE pii_type = "ssn" -> 100 [] pii_type = "credit_card" -> 100
      [] pii_type = "passport" -> 90 [] pii_type = "date_of_birth" -> 80
      [] pii_type = "phone" -> 70 [] pii_type = "email" -> 60
      [] pii_type = "address" -> 50 [] pii_type = "license_plate" -> 40
      [] pii_type = "ip_address" -> 30 [] OTHER -> 50

\* the PII types of which a pattern matches the combined text of a call
MatchedPiiTypes(c) ==
    { pii_patterns[k][1] :
        k \in { j \in 1..Len(pii_patterns) :
                  PiiMatchTable[FullText(c.text, c.generated_output)][j] # <<>> } }

\* C18: whatever PII matches there are, the score AdShield._analyze_pii reports is the
\* maximum over the matched types of the fixed table (ssn 100, credit_card 100, passport
\* 90, date_of_birth 80, phone 70, email 60, address 50, license_plate 40, ip_address 30,
\* otherwise 50), 0 when nothing matches, and the confidence of each detection is 0.9 for
\* ssn, email and credit_card and 0.7 for every other type.
C18_PiiSensitivity ==
    \A c \in AnalyzeCalls :
        /\ c.result.pii.score = SetMax({ SensitivityTable(t) : t \in MatchedPiiTypes(c) })
        /\ MatchedPiiTypes(c) = {} => c.result.pii.score = 0 /\ c.result.pii.indices = <<>>
        /\ { d.piiType : d \in Range(c.result.pii.indices) } = MatchedPiiTypes(c)
        /\ \A d \in Range(c.result.pii.indices) :
              d.confidence = (IF d.piiType \in {"ssn", "email", "credit_card"} THEN 90 ELSE 70)

\* an email address with two matches of less sensitive types: score 60, confidences 0.9
\* and 0.7
C18_Witness ==
    \E c \in AnalyzeCalls :
        /\ "email" \in MatchedPiiTypes(c)
        /\ Cardinality(MatchedPiiTypes(c)) = 3
        /\ c.result.pii.score = 60
        /\ \E d \in Range(c.result.pii.indices) : d.piiType = "ip_address" /\ d.confidence = 70
        /\ \E d \in Range(c.result.pii.indices) : d.piiType = "email" /\ d.confidence = 90

\* C19: with n the number of distinct negative indicators in the context window and p
\* the number of distinct positive indicators, _analyze_bias_context returns
\* min(20 + 20*n, 100) when n > p, otherwise max(20 - 10*p, 0) when p > 0, otherwise 20.
\* The result is in 0..100, and the negative branch is taken only when n is strictly
\* greater than p: a tie with p > 0 lowers the intensity.
C19_BiasContext ==
    (pc = "responded" /\ request.endpoint = "_analyze_bias_context") =>
        LET n == request.negatives
            p == request.positives
            r == response.body
        IN  /\ n > p => r = (IF 20 + 20 * n <= 100 THEN 20 + 20 * n ELSE 100)
            /\ (n <= p /\ p > 0) => r = (IF 20 - 10 * p >= 0 THEN 20 - 10 * p ELSE 0)
            /\ (n <= p /\ p = 0) => r = 20
            /\ r \in 0..100
            /\ (n = p /\ p > 0) => r < 20

\* one negative and one positive indicator, each present twice: the intensity is 10
C19_Witness ==
    /\ pc = "responded"
    /\ request.endpoint = "_analyze_bias_context"
    /\ request.negatives = 1
    /\ request.positives = 1
    /\ request.repeated
    /\ request.context = "hate old respect hate old respect"
    /\ response.body = 10

\* the per-type score of a bias report, for the types the report carries
PerTypeScore(report, bias_type) ==
    CASE bias_type = "racial" -> report.racial
      [] bias_type = "gender" -> report.gender
      [] bias_type = "age" -> report.age
      [] bias_type = "religious" -> report.religious

\* C20: in AdShield._analyze_bias a keyword occurrence is recorded as a detection exactly
\* when its context intensity is above 30; an occurrence with intensity 30 or less is not
\* recorded, yet the per-type score of its bias type, and with it the bias score, is at
\* least that intensity.
C20_BiasRecording ==
    \A c \in AnalyzeCalls :
        LET occurrences == KeywordScanTable[FullText(c.text, c.generated_output)]
        IN  /\ c.result.bias.indices = SelectSeq(occurrences, LAMBDA o : o.intensity > 30)
            /\ \A o \in Range(occurrences) :
                  /\ (o \in Range(c.result.bias.indices)) <=> (o.intensity > 30)
                  /\ c.result.bias.score >= o.intensity
                  /\ o.biasType \in {"racial", "gender", "age", "religious"} =>
                        PerTypeScore(c.result.bias, o.biasType) >= o.intensity

\* a keyword with no indicator around it: intensity 20, not recorded, age score 20
C20_Witness ==
    \E c \in AnalyzeCalls :
        /\ c.text = "Old"
        /\ c.generated_output = ""
        /\ \E o \in Range(KeywordScanTable["Old"]) : o.intensity = 20 /\ o.biasType = "age"
        /\ c.result.bias.indices = <<>>
        /\ c.result.bias.age = 20
        /\ c.result.bias.score >= 20

\* the single-item request of main.py in hand, answered
SingleAnswered ==
    /\ app = "main"
    /\ pc = "responded"
    /\ request.endpoint = "/api/analyze"

\* the core fields of a response body
CoreFields(body) ==
    [promptInjection |-> body.promptInjection,
     pii             |-> body.pii,
     bias            |-> body.bias,
     overall         |-> body.overall,
     summary         |-> body.summary]

\* C21: in the single-item analyze endpoint of main.py the request is answered 503 exactly
\* when the engine is not initialised, with the detail of the 503 that was raised (it is
\* not converted to a 500); an exception raised by the core analysis is answered 500; and
\* whatever the enrichment does (it raises, or answers a text that is not a JSON object),
\* a core analysis that succeeded is answered 200 with the core fields of its report.
C21_SingleItemErrors ==
    SingleAnswered =>
        /\ response.status = 503 <=> adshield_engine = "None"
        /\ response.status = 503 =>
              response.detail = "AdShield engine not available. Service temporarily unavailable."
        /\ (adshield_engine # "None" /\ env.fault) => response.status = 500
        /\ (adshield_engine # "None" /\ ~env.fault) =>
              /\ response.status = 200
              /\ CoreFields(response.body) =
                    CoreFields(analyze(request.prompt, request.generated_output,
                                       env.classifier, hash_order))

\* the enrichment was asked for and raised on a report with detections: the answer is a
\* 200 carrying the report
C21_Witness ==
    /\ EnrichmentFailed
    /\ request.include_gemini_analysis
    /\ env.gemini.kind = "raises"
    /\ response.body.promptInjection.detected
    /\ response.body.overall.score > 0

\* the direct calls of AdShield._calculate_overall_score and _determine_risk_level in
\* hand: the three category scores and the overall score and risk level answered
WeightedCalls ==
    IF pc = "responded" /\ request.endpoint = "_calculate_overall_score" /\ app = "main"
    THEN {[scores |-> request.scores, overall |-> response.body[1]],
          [scores |-> request.raised, overall |-> response.body[2]]}
    ELSE IF pc = "responded" /\ request.endpoint = "analyze" /\ app = "main"
    THEN {[scores  |-> <<response.body.promptInjection.score, response.body.pii.score,
                         response.body.bias.score>>,
           overall |-> response.body.overall]}
    ELSE {}

\* how many of the three category scores are not zero
NonZero(scores) == Cardinality({ j \in 1..3 : scores[j] > 0 })

\* C22: in AdShield the risk level is above low only when at least two of the three
\* category scores are non-zero, and high only when all three are; when exactly one
\* category score is non-zero the overall score is at most 40 and the risk level is low;
\* injection 100 with PII 0 and bias 0 gives overall 40 and risk level low.
C22_SingleCategoryIsLow ==
    \A c \in WeightedCalls :
        /\ c.overall.riskLevel \in {"medium", "high"} => NonZero(c.scores) >= 2
        /\ c.overall.riskLevel = "high" => NonZero(c.scores) = 3
        /\ NonZero(c.scores) = 1 => (c.overall.score <= 40 /\ c.overall.riskLevel = "low")
        /\ c.scores = <<100, 0, 0>> => c.overall = [score |-> 40, riskLevel |-> "low"]

\* a critical injection alone: the score of injection raised to 100 with PII and bias
\* at 0 is answered overall 40, low
C22_Witness ==
    /\ pc = "responded"
    /\ app = "main"
    /\ request.endpoint = "_calculate_overall_score"
    /\ request.raised = <<100, 0, 0>>
    /\ response.body[2] = [score |-> 40, riskLevel |-> "low"]
    /\ [scores |-> <<100, 0, 0>>, overall |-> response.body[2]] \in WeightedCalls

\* C23: in every result of SimpleAdShield.analyze (the engine of simple_main.py, the app
\* start_backend.py serves) the injection score is one of 0, 50 and 75, the bias score
\* is 0 or 30, the overall score is at most 69 and the risk level is never high.
C23_SimpleNeverHigh ==
    \A r \in SimpleResults :
        /\ r.promptInjection.score \in {0, 50, 75}
        /\ r.bias.score \in {0, 30}
        /\ r.overall.score <= 69
        /\ r.overall.riskLevel # "high"

\* the top of every category at once: a jailbreak phrase, a social security number and
\* a bias keyword give 75, 100 and 30, overall 69, medium
C23_Witness ==
    \E r \in SimpleResults :
        /\ r.promptInjection.score = 75
        /\ r.pii.score = 100
        /\ r.bias.score = 30
        /\ r.overall = [score |-> 69, riskLevel |-> "medium"]

BiasRiskFactor == "Potential bias indicators found in content"

\* C24 as stated: in every bias report of AdShield._analyze_bias, whatever the input and
\* whatever the classifier does, detected is true exactly when the bias score is greater
\* than 30, so that a score above 30 comes with a flagged span and with the bias risk
\* factor in the summary.
C24_AsStated ==
    \A c \in AnalyzeCalls :
        /\ c.result.bias.detected <=> c.result.bias.score > 30
        /\ c.result.bias.score > 30 =>
              /\ Len(c.result.bias.indices) >= 1
              /\ BiasRiskFactor \in Range(c.result.summary.riskFactors)

\* C24 amended: a bias report with detected true has a score greater than 30, at least
\* one flagged span and the bias risk factor in the summary; and when the classifier
\* gives no toxicity signal (it is absent, fails, or does not label the text TOXIC above
\* 0.7) detected is true exactly when the bias score is greater than 30.  With a toxicity
\* signal the score is above 70 whether or not anything is flagged.
C24_DetectedAgreesWithKeywordScore ==
    \A c \in AnalyzeCalls :
        /\ c.result.bias.detected =>
              /\ c.result.bias.score > 30
              /\ Len(c.result.bias.indices) >= 1
              /\ BiasRiskFactor \in Range(c.result.summary.riskFactors)
        /\ ToxicitySignal(c.classifier) = {} =>
              (c.result.bias.detected <=> c.result.bias.score > 30)
        /\ ToxicitySignal(c.classifier) # {} => c.result.bias.score > 70

\* a keyword next to a negative indicator, the classifier answering TOXIC at the
\* threshold, which is no signal: score 40, detected, one span flagged, the bias risk
\* factor in the summary
C24_Witness ==
    \E c \in AnalyzeCalls :
        /\ c.classifier.kind = "result"
        /\ c.classifier.label = "TOXIC"
        /\ c.classifier.score = 70
        /\ c.result.bias.score = 40
        /\ c.result.bias.detected
        /\ Len(c.result.bias.indices) = 1
        /\ BiasRiskFactor \in Range(c.result.summary.riskFactors)

\* the results of the two engines on one input in hand: SimpleAdShield.analyze and
\* AdShield.analyze without a classifier
BothResults ==
    IF pc = "responded" /\ request.endpoint = "analyze both" THEN {response.body} ELSE {}

\* C25 as stated: on every input each category score of SimpleAdShield.analyze
\* (injection, PII, bias) is less than or equal to the same category score of
\* AdShield.analyze without a classifier.
C25_AsStated ==
    \A b \in BothResults :
        /\ b.simple.promptInjection.score <= b.full.promptInjection.score
        /\ b.simple.pii.score <= b.full.pii.score
        /\ b.simple.bias.score <= b.full.bias.score

\* C25 amended: on every input the injection score and the PII score of
\* SimpleAdShield.analyze are less than or equal to those of AdShield.analyze without a
\* classifier.  The bias score of the simplified engine is 0 or 30; it is less than or
\* equal to the full engine's when the full engine flags a bias span (its score is then
\* at least 40), and otherwise a simplified score of 30 stands against a full score of
\* at most 20.
C25_SimpleBelowFull ==
    \A b \in BothResults :
        /\ b.simple.promptInjection.score <= b.full.promptInjection.score
        /\ b.simple.pii.score <= b.full.pii.score
        /\ b.simple.bias.score \in {0, 30}
        /\ b.full.bias.detected =>
              (b.full.bias.score >= 40 /\ b.simple.bias.score <= b.full.bias.score)
        /\ ~b.full.bias.detected => b.full.bias.score <= 20

\* an input on which every category of the simplified engine is at or below the full
\* engine's: injection 75 and 75, PII 100 and 100, bias 30 and 40
C25_Witness ==
    \E b \in BothResults :
        /\ b.simple.promptInjection.score = 75
        /\ b.full.promptInjection.score = 75
        /\ b.simple.pii.score = 100
        /\ b.full.pii.score = 100
        /\ b.simple.bias.score = 30
        /\ b.full.bias.score = 40

(***************************************************************************)
(* The occurrence scan of _analyze_bias for one keyword of one bias type,  *)
(* statement by statement: the test keyword in text_lower, then the while  *)
(* loop, each turn of which calls find() and either breaks or runs the     *)
(* body.  frames[1] holds the locals start_pos, pos, detections and the    *)
(* entry of bias_scores for the type; visited is the history of the loop:  *)
(* the positions the body has run on, in the order it ran on them.  The    *)
(* keywords are one of the lexicon and two that can overlap themselves.    *)
(***************************************************************************)
MaxScanWords == 2

ScanVocabulary == {"aaA", "an", "ana", "all ", "man"}

ScanTexts == TextsOver(ScanVocabulary, MaxScanWords)

ScanKeywords == {"man", "aa", "ana"}

ScanInit ==
    /\ app = "main"
    /\ hash_order \in HashOrders
    /\ started = "yes"
    /\ adshield_engine = "AdShield"
    /\ bias_classifier = "None"
    /\ gemini_model = "None"
    /\ pc = "if"
    /\ request \in { [endpoint |-> "_analyze_bias", text |-> t, bias_type |-> "gender",
                      keyword |-> k] : t \in ScanTexts, k \in ScanKeywords }
    /\ env = NoEnv
    /\ response = NoResponse
    /\ frames = <<[start_pos |-> 0, pos |-> 0, bias_score |-> 0, detections |-> <<>>,
                  visited |-> <<>>]>>

\* if keyword in text_lower: start_pos = 0
ScanIf ==
    /\ pc = "if"
    /\ IF Contains(Lower(request.text), request.keyword)
       THEN /\ pc' = "find"
            /\ frames' = [frames EXCEPT ![1].start_pos = 0]
       ELSE /\ pc' = "done"
            /\ UNCHANGED frames
    /\ UNCHANGED <<app, hash_order, started, adshield_engine, bias_classifier, gemini_model,
                   request, env, response>>

\* pos = text_lower.find(keyword, start_pos); if pos == -1: break
ScanFind ==
    /\ pc = "find"
    /\ \E pos \in {Find(Lower(request.text), request.keyword, frames[1].start_pos)} :
          /\ frames' = [frames EXCEPT ![1].pos = pos]
          /\ pc' = IF pos = -1 THEN "done" ELSE "body"
    /\ UNCHANGED <<app, hash_order, started, adshield_engine, bias_classifier, gemini_model,
                   request, env, response>>

\* the body of the loop: context, bias_intensity, bias_scores[bias_type], the detection
\* when the intensity is above the threshold, start_pos = pos + 1
ScanBody ==
    /\ pc = "body"
    /\ \E pos \in {frames[1].pos}, text \in {request.text}, keyword \in {request.keyword} :
         \E context \in {Slice(text, Max(0, pos - ContextRadius),
                               Min(Len(text), pos + Len(keyword) + ContextRadius))} :
          \E bias_intensity \in {_analyze_bias_context(context, keyword)} :
            frames' = [frames EXCEPT
                          ![1].bias_score = Max(@, bias_intensity),
                          ![1].detections =
                              IF bias_intensity > ReportThreshold
                              THEN Append(@, [start     |-> pos,
                                              end       |-> pos + Len(keyword),
                                              type      |-> "bias",
                                              biasType  |-> request.bias_type,
                                              intensity |-> bias_intensity])
                              ELSE @,
                          ![1].visited = Append(@, pos),
                          ![1].start_pos = NextStart(pos, keyword)]
    /\ pc' = "find"
    /\ UNCHANGED <<app, hash_order, started, adshield_engine, bias_classifier, gemini_model,
                   request, env, response>>

ScanNext ==
    \/ ScanIf
    \/ ScanFind
    \/ ScanBody

\* the interpreter runs the loop on: a statement that can run does run
ScanSpec == ScanInit /\ [][ScanNext]_vars /\ WF_vars(ScanNext)

\* the positions of text_lower at which keyword occurs, overlapping ones included
OccurrencePositions(text_lower, keyword) ==
    { p \in 0..(Len(text_lower) - Len(keyword)) :
        Slice(text_lower, p, p + Len(keyword)) = keyword }

\* the body has run on increasing positions, each an occurrence of the keyword, and the
\* detections recorded are of positions it ran on, no two of the same position
ScanInOrder ==
    LET visited    == frames[1].visited
        detections == frames[1].detections
    IN  /\ \A i, j \in 1..Len(visited) : i < j => visited[i] < visited[j]
        /\ Range(visited) \subseteq OccurrencePositions(Lower(request.text), request.keyword)
        /\ Len(detections) <= Len(visited)
        /\ \A i, j \in 1..Len(detections) : i < j => detections[i].start < detections[j].start
        /\ \A i \in 1..Len(detections) : detections[i].start \in Range(visited)

\* when the loop is over the body has run on every occurrence, and the locals are what
\* the scan of the engine gives for the keyword
ScanComplete ==
    pc = "done" =>
        /\ Range(frames[1].visited) =
              OccurrencePositions(Lower(request.text), request.keyword)
        /\ frames[1].detections =
              SelectSeq(KeywordOccurrences(request.bias_type, request.keyword, request.text,
                                           Lower(request.text), 0),
                        LAMBDA o : o.intensity > ReportThreshold)

\* C26: for every text and every keyword the occurrence-scanning loop of _analyze_bias
\* terminates; it runs its body on every position at which the keyword occurs in the
\* lowercased text, overlapping occurrences included, once each and in increasing order;
\* and an occurrence gives at most one detection of the bias type.
C26_ScanTerminatesVisitingAll ==
    /\ <>(pc = "done")
    /\ [](ScanInOrder /\ ScanComplete)

\* the keyword aa in all aaA: two overlapping occurrences in the lowercased text, at 4
\* and at 5, next to a negative indicator, each visited once and each giving one
\* detection
C26_Witness ==
    /\ pc = "done"
    /\ request.endpoint = "_analyze_bias"
    /\ request.text = "all aaA"
    /\ request.keyword = "aa"
    /\ frames[1].visited = <<4, 5>>
    /\ Len(frames[1].detections) = 2

\* how many characters strip() takes off the front of f"{text} {generated_output}"
LeadingStripped(text, generated_output) ==
    Len(text \o " " \o generated_output) - Len(LStrip(text \o " " \o generated_output))

\* the match that detection d of a call reports lies inside the input text of the call:
\* full_text[i] is character i + LeadingStripped of the text followed by the output
InInputText(c, d) == d.end + LeadingStripped(c.text, c.generated_output) <= Len(c.text)

PiiPatternOf(pii_type) ==
    pii_patterns[CHOOSE k \in 1..Len(pii_patterns) : pii_patterns[k][1] = pii_type][2]

BiasKeywordsOf(bias_type) ==
    Range(bias_keywords[CHOOSE k \in 1..Len(bias_keywords) : bias_keywords[k][1] = bias_type][2])

=============================================================================
